---- MODULE Spec2Model ----
(***************************************************************************)
(* Model of the ingestion pipeline of the neighborhood monitor: the fetch  *)
(* loop, the dedup step and the filter step of run.main, the geographic    *)
(* filter of pipeline/filter.py and the collector-level geographic match   *)
(* of scrapers/legistar.py.                                                *)
(*                                                                         *)
(* Text is modelled character by character: a Python str is a sequence of  *)
(* one-character strings, so that whole-word (\b) and letter-case          *)
(* behaviour of the regular expressions is computed, not assumed.          *)
(***************************************************************************)
EXTENDS Naturals, Sequences, FiniteSets

(***************************************************************************)
(* Characters                                                              *)
(***************************************************************************)
Upper ==
    <<"A", "B", "C", "D", "E", "F", "G", "H", "I", "J", "K", "L", "M",
      "N", "O", "P", "Q", "R", "S", "T", "U", "V", "W", "X", "Y", "Z">>

LowerCase ==
    <<"a", "b", "c", "d", "e", "f", "g", "h", "i", "j", "k", "l", "m",
      "n", "o", "p", "q", "r", "s", "t", "u", "v", "w", "x", "y", "z">>

Digits ==
    <<"0", "1", "2", "3", "4", "5", "6", "7", "8", "9">>

Range(s) ==
    {s[i] : i \in DOMAIN s}

\* str.lower() on the ASCII capitals
LowerOf ==
    [c \in Range(Upper) |->
        LowerCase[CHOOSE i \in DOMAIN Upper : Upper[i] = c]]

\* str.lower() on one ASCII character
Lower(c) ==
    IF c \in DOMAIN LowerOf THEN LowerOf[c] ELSE c

\* the characters of the regular-expression class \w in ASCII text
WordChars ==
    Range(Upper) \cup Range(LowerCase) \cup Range(Digits) \cup {"_"}

IsWordChar(c) ==
    c \in WordChars

\* comparison of a text character with a pattern character, with or
\* without re.IGNORECASE
CharEq(c, d, ignorecase) ==
    IF ignorecase THEN Lower(c) = Lower(d) ELSE c = d

(***************************************************************************)
(* Regular expressions of the form \b(t1|t2|...)\b over escaped literals   *)
(***************************************************************************)
\* \b at offset p of text (between text[p] and text[p+1], 0 <= p <= Len)
Boundary(text, p) ==
    LET before == p >= 1 /\ IsWordChar(text[p])
        after  == p < Len(text) /\ IsWordChar(text[p + 1])
    IN  before # after

\* the escaped literal term matches text at offset p
LiteralAt(text, p, term, ignorecase) ==
    /\ p + Len(term) <= Len(text)
    /\ \A k \in 1..Len(term) : CharEq(text[p + k], term[k], ignorecase)

\* re.compile(r"\b(" + "|".join(re.escape(t) for t in terms) + r")\b", flags)
\* The join of no term is the empty alternative.
Compile(terms, ignorecase) ==
    [compiled   |-> TRUE,
     alts       |-> IF terms = <<>> THEN << <<>> >> ELSE terms,
     ignorecase |-> ignorecase]

\* the value None used in place of a pattern
NoPattern ==
    [compiled |-> FALSE]

\* pattern.search(text) is not None
Search(pattern, text) ==
    \E p \in 0..Len(text) : \E a \in DOMAIN pattern.alts :
        /\ Boundary(text, p)
        /\ LiteralAt(text, p, pattern.alts[a], pattern.ignorecase)
        /\ Boundary(text, p + Len(pattern.alts[a]))

\* "pattern and pattern.search(text)"
Truthy(pattern, text) ==
    pattern.compiled /\ Search(pattern, text)

(***************************************************************************)
(* dict access                                                             *)
(***************************************************************************)
\* d.get(key, default)
Get(d, key, default) ==
    IF key \in DOMAIN d THEN d[key] ELSE default

Space ==
    <<" ">>

\* variant: the address is left out of the searched text
Searchable_NoAddress(item) ==
    Get(item, "title", <<>>) \o Space \o Get(item, "description", <<>>)

\* " ".join([title, description, address]) with absent fields read as ""
Searchable(item) ==
    Get(item, "title", <<>>) \o Space \o Get(item, "description", <<>>)
        \o Space \o Get(item, "address", <<>>)

(***************************************************************************)
(* pipeline/filter.py                                                      *)
(***************************************************************************)
t_saint_paul ==
    <<"s", "a", "i", "n", "t", " ", "p", "a", "u", "l">>

t_ramsey ==
    <<"r", "a", "m", "s", "e", "y">>

\* variant: the flag re.IGNORECASE is left out
saint_paul_pattern_CaseSensitive ==
    [compiled   |-> TRUE,
     alts       |-> <<t_saint_paul, t_ramsey>>,
     ignorecase |-> FALSE]

\* re.compile(r"\bsaint paul\b|\bramsey\b", re.IGNORECASE)
saint_paul_pattern ==
    [compiled   |-> TRUE,
     alts       |-> <<t_saint_paul, t_ramsey>>,
     ignorecase |-> TRUE]

\* zip_pattern of apply: compiled without re.IGNORECASE, None for no ZIP
zip_pattern(config) ==
    LET zip_codes == Get(config, "zip_codes", <<>>)
    IN  IF zip_codes # <<>> THEN Compile(zip_codes, FALSE) ELSE NoPattern

neighborhood_pattern(config) ==
    LET neighborhoods == Get(config, "neighborhoods", <<>>)
    IN  IF neighborhoods # <<>> THEN Compile(neighborhoods, TRUE)
        ELSE NoPattern

corridor_pattern(config) ==
    LET corridors == Get(config, "corridors", <<>>)
    IN  IF corridors # <<>> THEN Compile(corridors, TRUE) ELSE NoPattern

\* variant: the rule for ramsey_county is left out
TrustRules_NoRamsey(source_key, searchable) ==
    IF source_key = "stpaul_permits" THEN TRUE
    ELSE IF source_key = "stpaul_planning" THEN TRUE
    ELSE IF source_key = "mndot" THEN Search(saint_paul_pattern, searchable)
    ELSE FALSE

\* variant: an unknown source is kept
TrustRules_DefaultKeep(source_key, searchable) ==
    IF source_key = "mndot" THEN Search(saint_paul_pattern, searchable)
    ELSE TRUE

\* step 4 of _matches: the source-level trust rules, reached when none of
\* the three patterns matched
TrustRules(source_key, searchable) ==
    IF source_key = "stpaul_permits" THEN TRUE
    ELSE IF source_key = "stpaul_planning" THEN TRUE
    ELSE IF source_key = "ramsey_county" THEN TRUE
    ELSE IF source_key = "mndot" THEN Search(saint_paul_pattern, searchable)
    ELSE FALSE

_matches(item, zip_p, neighborhood_p, corridor_p) ==
    LET searchable == Searchable(item)
    IN  IF Truthy(zip_p, searchable) THEN TRUE
        ELSE IF Truthy(neighborhood_p, searchable) THEN TRUE
        ELSE IF Truthy(corridor_p, searchable) THEN TRUE
        ELSE TrustRules(Get(item, "source_key", ""), searchable)

\* variant: the loop ends at the first item that does not match
FilterApply_UntilFirstDrop(items, config) ==
    LET Keep(item) == _matches(item, zip_pattern(config),
                               neighborhood_pattern(config),
                               corridor_pattern(config))
        drops == {i \in DOMAIN items : ~Keep(items[i])}
    IN  IF drops = {} THEN items
        ELSE SubSeq(items, 1, (CHOOSE i \in drops :
                                    \A j \in drops : i <= j) - 1)

\* filter.apply: the items that match, in input order
FilterApply(items, config) ==
    LET Keep(item) == _matches(item, zip_pattern(config),
                               neighborhood_pattern(config),
                               corridor_pattern(config))
    IN  SelectSeq(items, Keep)

(***************************************************************************)
(* scrapers/legistar.py: collector-level geographic match                  *)
(***************************************************************************)
SUFFIX_MAP ==
    <<
       [full |-> <<"A", "v", "e", "n", "u", "e">>,
        abbr |-> <<"A", "v", "e">>],
       [full |-> <<"S", "t", "r", "e", "e", "t">>,
        abbr |-> <<"S", "t">>],
       [full |-> <<"B", "o", "u", "l", "e", "v", "a", "r", "d">>,
        abbr |-> <<"B", "l", "v", "d">>],
       [full |-> <<"P", "a", "r", "k", "w", "a", "y">>,
        abbr |-> <<"P", "k", "w", "y">>],
       [full |-> <<"D", "r", "i", "v", "e">>,
        abbr |-> <<"D", "r">>],
       [full |-> <<"L", "a", "n", "e">>,
        abbr |-> <<"L", "n">>],
       [full |-> <<"C", "o", "u", "r", "t">>,
        abbr |-> <<"C", "t">>],
       [full |-> <<"C", "i", "r", "c", "l", "e">>,
        abbr |-> <<"C", "i", "r">>],
       [full |-> <<"P", "l", "a", "c", "e">>,
        abbr |-> <<"P", "l">>],
       [full |-> <<"R", "o", "a", "d">>,
        abbr |-> <<"R", "d">>]
    >>

\* re.compile(r"\bWord\b", re.IGNORECASE).sub(repl, text), scanning from
\* offset p: leftmost non-overlapping matches are replaced, word boundaries
\* are those of the text being scanned
RECURSIVE SubFrom(_, _, _, _)
SubFrom(text, p, word, repl) ==
    IF p >= Len(text) THEN <<>>
    ELSE IF /\ Boundary(text, p)
            /\ LiteralAt(text, p, word, TRUE)
            /\ Boundary(text, p + Len(word))
         THEN repl \o SubFrom(text, p + Len(word), word, repl)
         ELSE <<text[p + 1]>> \o SubFrom(text, p + 1, word, repl)

\* the loop of _normalize_suffixes from entry i of the table on
RECURSIVE NormalizeFrom(_, _)
NormalizeFrom(text, i) ==
    IF i > Len(SUFFIX_MAP) THEN text
    ELSE NormalizeFrom(SubFrom(text, 0, SUFFIX_MAP[i].full,
                               SUFFIX_MAP[i].abbr), i + 1)

\* variant: the text is matched as it is
_normalize_suffixes_Identity(text) ==
    text

_normalize_suffixes(text) ==
    NormalizeFrom(text, 1)

\* make_pattern of _build_geo_patterns: every pattern with re.IGNORECASE
make_pattern(terms) ==
    IF terms = <<>> THEN NoPattern ELSE Compile(terms, TRUE)

_build_geo_patterns(config) ==
    [zip          |-> make_pattern(Get(config, "zip_codes", <<>>)),
     neighborhood |-> make_pattern(Get(config, "neighborhoods", <<>>)),
     corridor     |-> make_pattern(Get(config, "corridors", <<>>))]

_geo_matches(text, geo) ==
    LET normalized == _normalize_suffixes(text)
    IN  \E k \in DOMAIN geo : Truthy(geo[k], normalized)

(***************************************************************************)
(* run.py                                                                  *)
(***************************************************************************)
\* the scraper registry, in insertion order
SCRAPERS ==
    <<"stpaul_permits", "stpaul_planning", "ramsey_county", "mndot">>

\* variant: raw is part of the key
Key_WithRaw(item) ==
    <<Get(item, "url", ""), Get(item, "title", <<>>), Get(item, "raw", "")>>

\* identity key of the dedup step:
\* key = (item.get("url", ""), item.get("title", ""))
Key(item) ==
    <<Get(item, "url", ""), Get(item, "title", <<>>)>>

\* the dedup loop of main from position i on
RECURSIVE DedupLoop(_, _, _, _)
DedupLoop(all, i, seen, acc) ==
    IF i > Len(all) THEN acc
    ELSE IF Key(all[i]) \notin seen
         THEN DedupLoop(all, i + 1, seen \cup {Key(all[i])},
                        Append(acc, all[i]))
         ELSE DedupLoop(all, i + 1, seen, acc)

Reverse(s) ==
    [i \in 1..Len(s) |-> s[Len(s) + 1 - i]]

\* variant: the key is the url alone
RECURSIVE DedupLoop_ByUrl(_, _, _, _)
DedupLoop_ByUrl(all, i, seen, acc) ==
    IF i > Len(all) THEN acc
    ELSE IF Get(all[i], "url", "") \notin seen
         THEN DedupLoop_ByUrl(all, i + 1, seen \cup {Get(all[i], "url", "")},
                              Append(acc, all[i]))
         ELSE DedupLoop_ByUrl(all, i + 1, seen, acc)

Dedup_ByUrl(all) ==
    DedupLoop_ByUrl(all, 1, {}, <<>>)

\* variant: seen is overwritten with the latest key instead of extended
RECURSIVE DedupLoop_LastKeyOnly(_, _, _, _)
DedupLoop_LastKeyOnly(all, i, seen, acc) ==
    IF i > Len(all) THEN acc
    ELSE IF Key(all[i]) \notin seen
         THEN DedupLoop_LastKeyOnly(all, i + 1, {Key(all[i])},
                                    Append(acc, all[i]))
         ELSE DedupLoop_LastKeyOnly(all, i + 1, seen, acc)

Dedup_LastKeyOnly(all) ==
    DedupLoop_LastKeyOnly(all, 1, {}, <<>>)

\* variant: the last item of each key is kept instead of the first
Dedup_KeepLast(all) ==
    Reverse(DedupLoop(Reverse(all), 1, {}, <<>>))

\* variant: the loop starts at the second item
Dedup_SkipFirst(all) ==
    DedupLoop(all, 2, {}, <<>>)

Dedup(all) ==
    DedupLoop(all, 1, {}, <<>>)

\* the collectors that main runs: the one named by --source, or all
scrapers_to_run(a) ==
    IF a.source # "None" THEN <<a.source>> ELSE SCRAPERS

(***************************************************************************)
(* Order of str values                                                     *)
(***************************************************************************)
\* the printable ASCII characters in code point order, from 32 on, the
\* double quote (34), the backslash (92) and the grave accent (96) left out
AsciiLow ==
    <<
      " ", "!"
    >>

AsciiMid ==
    <<
      "#", "$", "%", "&", "'", "(", ")", "*", "+", ",", "-", ".",
      "/", "0", "1", "2", "3", "4", "5", "6", "7", "8", "9", ":",
      ";", "<", "=", ">", "?", "@", "A", "B", "C", "D", "E", "F",
      "G", "H", "I", "J", "K", "L", "M", "N", "O", "P", "Q", "R",
      "S", "T", "U", "V", "W", "X", "Y", "Z", "["
    >>

AsciiHigh ==
    <<
      "]", "^", "_"
    >>

AsciiTop ==
    <<
      "a", "b", "c", "d", "e", "f", "g", "h", "i", "j", "k", "l",
      "m", "n", "o", "p", "q", "r", "s", "t", "u", "v", "w", "x",
      "y", "z", "{", "|", "}", "~"
    >>

\* 1 + the number of code points before the first character of each segment
AsciiSegments ==
    <<[chars |-> AsciiLow, base |-> 31], [chars |-> AsciiMid, base |-> 34],
      [chars |-> AsciiHigh, base |-> 92], [chars |-> AsciiTop, base |-> 96]>>

\* ord(c) of one of these characters
CodePoint ==
    [c \in UNION {Range(AsciiSegments[k].chars) : k \in DOMAIN AsciiSegments}
        |-> LET k == CHOOSE n \in DOMAIN AsciiSegments :
                        c \in Range(AsciiSegments[n].chars)
                seg == AsciiSegments[k].chars
            IN  AsciiSegments[k].base
                    + CHOOSE i \in DOMAIN seg : seg[i] = c]

\* a < b on str values: lexicographic by code point
StrLess(a, b) ==
    \E k \in 1..Len(b) :
        /\ \A j \in 1..(k - 1) : j <= Len(a) /\ a[j] = b[j]
        /\ k > Len(a) \/ CodePoint[a[k]] < CodePoint[b[k]]

(***************************************************************************)
(* pipeline/flag.py                                                        *)
(***************************************************************************)
\* variant: the pattern is compiled without re.IGNORECASE
KeywordPattern_CaseSensitive(kw) ==
    [compiled   |-> TRUE,
     alts       |-> <<kw>>,
     ignorecase |-> FALSE]

\* re.compile(r"\b" + re.escape(kw) + r"\b", re.IGNORECASE)
KeywordPattern(kw) ==
    [compiled   |-> TRUE,
     alts       |-> <<kw>>,
     ignorecase |-> TRUE]

\* variant: the reasons are listed last keyword first
Reasons_LastFirst(item, keywords) ==
    LET Hit(kw) == Search(KeywordPattern(kw), Searchable(item))
    IN Reverse(SelectSeq(keywords, Hit))

\* [kw for kw, pat in compiled if pat.search(searchable)]
Reasons(item, keywords) ==
    LET Hit(kw) == Search(KeywordPattern(kw), Searchable(item))
    IN  SelectSeq(keywords, Hit)

\* variant: the title as it is logged is written back to the item
SetFlag_StoresLoggedTitle(item, flagged, reasons) ==
    [k \in DOMAIN item \cup {"flagged", "flag_reasons"} |->
        IF k = "flagged" THEN flagged
        ELSE IF k = "flag_reasons" THEN reasons
        ELSE IF k = "title" /\ reasons # <<>>
            THEN SubSeq(item[k], 1, IF Len(item[k]) < 7 THEN Len(item[k])
                                    ELSE 7)
        ELSE item[k]]

\* item["flagged"] = flagged; item["flag_reasons"] = reasons
SetFlag(item, flagged, reasons) ==
    [k \in DOMAIN item \cup {"flagged", "flag_reasons"} |->
        IF k = "flagged" THEN flagged
        ELSE IF k = "flag_reasons" THEN reasons
        ELSE item[k]]

\* variant: with no keyword configured the item is left as it is
FlagItem_SkipsWithoutKeywords(item, keywords) ==
    IF keywords = <<>>
    THEN item
    ELSE SetFlag(item, Reasons(item, keywords) # <<>>,
                 Reasons(item, keywords))

\* what flag.apply does to one item
FlagItem(item, keywords) ==
    IF keywords = <<>> THEN SetFlag(item, FALSE, <<>>)
    ELSE SetFlag(item, Reasons(item, keywords) # <<>>,
                 Reasons(item, keywords))

\* variant: only the flagged items are returned
FlagApply_FlaggedOnly(items, config) ==
    SelectSeq([i \in 1..Len(items) |->
                    FlagItem(items[i], Get(config, "flag_keywords", <<>>))],
              LAMBDA item : item.flagged)

\* flag.apply: the list it returns, which is the list it was given with
\* every item annotated in place
FlagApply(items, config) ==
    [i \in 1..Len(items) |->
        FlagItem(items[i], Get(config, "flag_keywords", <<>>))]

(***************************************************************************)
(* pipeline/generate.py                                                    *)
(***************************************************************************)
\* the key of the first sort of build: (not flagged, date or "")
FirstKeyLess(a, b) ==
    LET na == ~Get(a, "flagged", FALSE)
        nb == ~Get(b, "flagged", FALSE)
    IN  \/ ~na /\ nb
        \/ na = nb /\ StrLess(Get(a, "date", <<>>), Get(b, "date", <<>>))

\* variant: an item without date is sorted as dated "unknown"
DateGreater_UnknownDefault(a, b) ==
    LET unknown == <<"u", "n", "k", "n", "o", "w", "n">>
    IN  StrLess(Get(b, "date", unknown), Get(a, "date", unknown))

\* variant: the older item first
DateGreater_Ascending(a, b) ==
    StrLess(Get(a, "date", <<>>), Get(b, "date", <<>>))

\* the key of the two later sorts, under reverse=True: later date first
DateGreater(a, b) ==
    StrLess(Get(b, "date", <<>>), Get(a, "date", <<>>))

\* sorted(s, key=..., reverse=...) for the two sorts of build: by the
\* first key ascending when reverse is FALSE, by the date descending when
\* it is TRUE. sorted() is stable in both directions, so item i of s comes
\* after the items ordered ahead of it and after the earlier items that it
\* is not ordered ahead of
SortedBy(s, reverse) ==
    LET Before(a, b) == IF reverse THEN DateGreater(a, b)
                        ELSE FirstKeyLess(a, b)
        Rank(i) == 1 + Cardinality({j \in DOMAIN s :
                        \/ Before(s[j], s[i])
                        \/ j < i /\ ~Before(s[i], s[j])})
    IN  [r \in 1..Len(s) |-> s[CHOOSE i \in DOMAIN s : Rank(i) = r]]

IsFlagged(item) ==
    Get(item, "flagged", FALSE)

IsUnflagged(item) ==
    ~Get(item, "flagged", FALSE)

\* variant: the second group is the whole list, not its unflagged items
OrderedItems_UnflaggedIsAll(items) ==
    LET sorted_items == SortedBy(items, FALSE)
        flagged   == SortedBy(SelectSeq(sorted_items, IsFlagged), TRUE)
        unflagged == SortedBy(sorted_items, TRUE)
    IN  flagged \o unflagged

\* variant: reverse=True taken as an ascending sort that is reversed, which
\* is the descending sort of the reversed list
OrderedItems_SortThenReverse(items) ==
    LET sorted_items == SortedBy(items, FALSE)
        flagged   == SortedBy(Reverse(SelectSeq(sorted_items, IsFlagged)),
                              TRUE)
        unflagged == SortedBy(Reverse(SelectSeq(sorted_items, IsUnflagged)),
                              TRUE)
    IN  flagged \o unflagged

\* ordered_items of build
OrderedItems(items) ==
    LET sorted_items == SortedBy(items, FALSE)
        flagged   == SortedBy(SelectSeq(sorted_items, IsFlagged), TRUE)
        unflagged == SortedBy(SelectSeq(sorted_items, IsUnflagged), TRUE)
    IN  flagged \o unflagged

\* sorted(S) for a set of str values
RECURSIVE SortedSet(_)
SortedSet(S) ==
    IF S = {} THEN <<>>
    ELSE LET m == CHOOSE x \in S : \A y \in S : ~StrLess(y, x)
         IN  <<m>> \o SortedSet(S \ {m})

\* variant: the empty value is listed too
DistinctSorted_KeepsEmpty(items, field) ==
    SortedSet({Get(items[i], field, <<>>) : i \in DOMAIN items})

\* sorted({i.get(field, "") for i in ordered_items if i.get(field)})
DistinctSorted(items, field) ==
    SortedSet({Get(items[i], field, <<>>) : i \in DOMAIN items} \ {<<>>})

c_permit ==
    <<"p", "e", "r", "m", "i", "t">>

c_hearing ==
    <<"h", "e", "a", "r", "i", "n", "g">>

c_road ==
    <<"r", "o", "a", "d">>

c_funding ==
    <<"f", "u", "n", "d", "i", "n", "g">>

\* sum(1 for i in items if i.get("category") == cat)
CountCategory(items, cat) ==
    Cardinality({i \in DOMAIN items : Get(items[i], "category", <<>>) = cat})

\* variant: every item counts as flagged
Stats_FlaggedCountsAll(ordered) ==
    [total    |-> Len(ordered),
     flagged  |-> Len(ordered),
     permits  |-> CountCategory(ordered, c_permit),
     hearings |-> CountCategory(ordered, c_hearing),
     roads    |-> CountCategory(ordered, c_road),
     funding  |-> CountCategory(ordered, c_funding)]

\* stats of build
Stats(ordered) ==
    [total    |-> Len(ordered),
     flagged  |-> Len(SelectSeq(ordered, IsFlagged)),
     permits  |-> CountCategory(ordered, c_permit),
     hearings |-> CountCategory(ordered, c_hearing),
     roads    |-> CountCategory(ordered, c_road),
     funding  |-> CountCategory(ordered, c_funding)]

(***************************************************************************)
(* datetime.strptime and strftime, as the date parsers of the collectors   *)
(* use them                                                                *)
(***************************************************************************)
DigitValue ==
    [c \in Range(Digits) |-> (CHOOSE i \in DOMAIN Digits : Digits[i] = c) - 1]

AllDigits(tok) ==
    \A i \in DOMAIN tok : tok[i] \in Range(Digits)

\* int(tok) for a token of digits
RECURSIVE IntOf(_)
IntOf(tok) ==
    IF tok = <<>> THEN 0
    ELSE 10 * IntOf(SubSeq(tok, 1, Len(tok) - 1)) + DigitValue[tok[Len(tok)]]

\* str(n) for a natural number
RECURSIVE StrOf(_)
StrOf(n) ==
    IF n < 10 THEN <<Digits[n + 1]>>
    ELSE StrOf(n \div 10) \o <<Digits[(n % 10) + 1]>>

\* n formatted by %m or %d: two digits
TwoDigits(n) ==
    <<Digits[(n \div 10) + 1], Digits[(n % 10) + 1]>>

Field(kind) ==
    [field |-> kind, lit |-> ""]

Literal(c) ==
    [field |-> "", lit |-> c]

\* "%Y-%m-%d"
FmtDate ==
    <<Field("Y"), Literal("-"), Field("m"), Literal("-"), Field("d")>>

\* "%Y-%m-%dT%H:%M:%S"
FmtSeconds ==
    FmtDate \o <<Literal("T"), Field("H"), Literal(":"), Field("M"),
                 Literal(":"), Field("S")>>

\* "%Y-%m-%dT%H:%M:%S.%f"
FmtFraction ==
    FmtSeconds \o <<Literal("."), Field("f")>>

\* str.lower()
LowerStr(text) ==
    [i \in DOMAIN text |-> Lower(text[i])]

\* the month names of the C locale in small letters; %b names the first
\* three letters of each
MonthNames ==
    <<<<"j", "a", "n", "u", "a", "r", "y">>, <<"f", "e", "b", "r", "u", "a",
      "r", "y">>, <<"m", "a", "r", "c", "h">>, <<"a", "p", "r", "i", "l">>,
      <<"m", "a", "y">>, <<"j", "u", "n", "e">>,
      <<"j", "u", "l", "y">>, <<"a", "u", "g", "u", "s", "t">>, <<"s", "e",
        "p", "t", "e", "m", "b", "e", "r">>, <<"o", "c", "t", "o", "b", "e",
        "r">>, <<"n", "o", "v", "e", "m", "b", "e", "r">>,
      <<"d", "e", "c", "e", "m", "b", "e", "r">>>>

\* the month that a token of %B or %b names
MonthNumber(tok) ==
    CHOOSE i \in DOMAIN MonthNames :
        \/ LowerStr(tok) = MonthNames[i]
        \/ LowerStr(tok) = SubSeq(MonthNames[i], 1, 3)

\* the regular expression that _strptime builds for a directive matches
\* the whole of tok
FieldMatches(kind, tok) ==
    LET n == Len(tok)
        v == IntOf(tok)
    IN  IF kind = "Y" THEN n = 4 /\ AllDigits(tok)
        ELSE IF kind = "y" THEN n = 2 /\ AllDigits(tok)
        ELSE IF kind = "B" THEN LowerStr(tok) \in Range(MonthNames)
        ELSE IF kind = "b"
            THEN LowerStr(tok) \in {SubSeq(MonthNames[i], 1, 3) :
                                        i \in DOMAIN MonthNames}
        ELSE IF kind = "f" THEN n \in 1..6 /\ AllDigits(tok)
        ELSE IF kind = "d" /\ n = 2 /\ tok[1] = " "
            THEN tok[2] \in Range(Digits) \ {"0"}
        ELSE /\ n \in 1..2
             /\ AllDigits(tok)
             /\ IF kind = "m" THEN v \in 1..12 /\ (n = 1 => v # 0)
                ELSE IF kind = "d" THEN v \in 1..31
                ELSE IF kind = "H" THEN n = 1 \/ v \in 0..23
                ELSE IF kind = "M" THEN n = 1 \/ v \in 0..59
                ELSE n = 1 \/ v \in 0..61

\* the longest token a directive can take
FieldWidth(kind) ==
    IF kind = "Y" THEN 4 ELSE IF kind = "f" THEN 6
    ELSE IF kind = "B" THEN 9 ELSE IF kind = "b" THEN 3 ELSE 2

\* the ways in which the format elements from k on match text from offset
\* p to its end, each way given as the tokens of the directives; a space
\* of the format stands for one space or more
RECURSIVE Matches(_, _, _, _, _)
Matches(text, p, fmt, k, found) ==
    IF k > Len(fmt) THEN (IF p = Len(text) THEN {found} ELSE {})
    ELSE IF fmt[k].field = "" /\ fmt[k].lit = " "
    THEN UNION {Matches(text, p + n, fmt, k + 1, found) :
                    n \in {m \in 1..(Len(text) - p) :
                            \A i \in 1..m : text[p + i] = " "}}
    ELSE IF fmt[k].field = ""
    THEN IF p < Len(text) /\ CharEq(text[p + 1], fmt[k].lit, TRUE)
         THEN Matches(text, p + 1, fmt, k + 1, found)
         ELSE {}
    ELSE UNION {Matches(text, p + n, fmt, k + 1,
                        Append(found, SubSeq(text, p + 1, p + n))) :
                    n \in {m \in 1..FieldWidth(fmt[k].field) :
                            /\ p + m <= Len(text)
                            /\ FieldMatches(fmt[k].field,
                                            SubSeq(text, p + 1, p + m))}}

\* int() of a day token, which may begin with a space
DayOf(tok) ==
    IF tok[1] = " " THEN IntOf(Tail(tok)) ELSE IntOf(tok)

IsLeap(year) ==
    year % 4 = 0 /\ (year % 100 # 0 \/ year % 400 = 0)

DaysInMonth(year, month) ==
    IF month = 2 THEN (IF IsLeap(year) THEN 29 ELSE 28)
    ELSE IF month \in {4, 6, 9, 11} THEN 30
    ELSE 31

\* the token that the directive kind took, <<>> when fmt has no such
\* directive
TokenOf(fmt, tokens, kind) ==
    LET fields == SelectSeq(fmt, LAMBDA e : e.field # "")
        at     == {i \in DOMAIN fields : fields[i].field = kind}
    IN  IF at = {} THEN <<>> ELSE tokens[CHOOSE i \in at : TRUE]

\* the year of the match: %Y, or %y with 69 to 99 in the last century, or
\* 1900
YearOf(fmt, tokens) ==
    IF TokenOf(fmt, tokens, "Y") # <<>>
    THEN IntOf(TokenOf(fmt, tokens, "Y"))
    ELSE IF TokenOf(fmt, tokens, "y") # <<>>
    THEN (IF IntOf(TokenOf(fmt, tokens, "y")) <= 68
          THEN 2000 + IntOf(TokenOf(fmt, tokens, "y"))
          ELSE 1900 + IntOf(TokenOf(fmt, tokens, "y")))
    ELSE 1900

\* the month of the match: %m, %B or %b, or 1
MonthOf(fmt, tokens) ==
    IF TokenOf(fmt, tokens, "m") # <<>>
    THEN IntOf(TokenOf(fmt, tokens, "m"))
    ELSE IF TokenOf(fmt, tokens, "B") # <<>>
    THEN MonthNumber(TokenOf(fmt, tokens, "B"))
    ELSE IF TokenOf(fmt, tokens, "b") # <<>>
    THEN MonthNumber(TokenOf(fmt, tokens, "b"))
    ELSE 1

\* the day of the match: %d, or 1
DayOfMonth(fmt, tokens) ==
    IF TokenOf(fmt, tokens, "d") # <<>>
    THEN DayOf(TokenOf(fmt, tokens, "d"))
    ELSE 1

\* no datetime has the fields of this match: the constructor raises
\* ValueError for the year 0, a day past the end of the month, a second
\* past 59
OutOfRange(fmt, tokens) ==
    \/ YearOf(fmt, tokens) = 0
    \/ DayOfMonth(fmt, tokens)
            > DaysInMonth(YearOf(fmt, tokens), MonthOf(fmt, tokens))
    \/ /\ TokenOf(fmt, tokens, "S") # <<>>
       /\ IntOf(TokenOf(fmt, tokens, "S")) > 59

\* the outcome of dt = datetime.strptime(text, fmt): raised, or year,
\* dt.year, and text, dt.strftime("%Y-%m-%d"); %Y does not pad the year
Strptime(text, fmt) ==
    LET ways == Matches(text, 0, fmt, 1, <<>>)
    IN  IF ways = {} THEN [raised |-> TRUE, year |-> 0, text |-> <<>>]
        ELSE LET tokens == CHOOSE w \in ways : TRUE
             IN  IF OutOfRange(fmt, tokens)
                 THEN [raised |-> TRUE, year |-> 0, text |-> <<>>]
                 ELSE [raised |-> FALSE,
                       year   |-> YearOf(fmt, tokens),
                       text   |-> StrOf(YearOf(fmt, tokens)) \o <<"-">>
                                    \o TwoDigits(MonthOf(fmt, tokens))
                                    \o <<"-">>
                                    \o TwoDigits(DayOfMonth(fmt, tokens))]

\* raw[:n]
Prefix(raw, n) ==
    SubSeq(raw, 1, IF Len(raw) < n THEN Len(raw) ELSE n)

(***************************************************************************)
(* scrapers/stpaul_permits.py and scrapers/legistar.py: the date parsers   *)
(***************************************************************************)
\* the formats that _parse_date tries, in this order
ParseDateFormats ==
    <<FmtFraction, FmtSeconds, FmtDate>>

\* the loop of _parse_date from format k on, and the return after it
RECURSIVE ParseDateFrom(_, _)
ParseDateFrom(raw, k) ==
    IF k > Len(ParseDateFormats)
    THEN (IF Len(raw) >= 10 THEN Prefix(raw, 10) ELSE raw)
    ELSE IF Strptime(Prefix(raw, 19), ParseDateFormats[k]).raised
    THEN ParseDateFrom(raw, k + 1)
    ELSE Strptime(Prefix(raw, 19), ParseDateFormats[k]).text

\* stpaul_permits._parse_date
_parse_date(raw, today) ==
    IF raw = <<>> THEN today ELSE ParseDateFrom(raw, 1)

\* legistar._parse_event_date
_parse_event_date(raw, today) ==
    IF raw = <<>> THEN today ELSE Prefix(raw, 10)

(***************************************************************************)
(* scrapers/legistar.py: the category of a matter; the categories the      *)
(* other collectors write                                                  *)
(***************************************************************************)
\* MATTER_TYPE_CATEGORY, in the order of the dict
MATTER_TYPE_CATEGORY ==
    <<
      [key |-> <<"o", "r", "d", "i", "n", "a", "n", "c", "e">>,
       cat |-> c_hearing],
      [key |-> <<"r", "e", "s", "o", "l", "u", "t", "i", "o", "n">>,
       cat |-> c_hearing],
      [key |-> <<"r", "e", "s", "o", "l", "u", "t", "i", "o", "n", "-", "p", "h">>,
       cat |-> c_hearing],
      [key |-> <<"p", "u", "b", "l", "i", "c", " ", "h", "e", "a", "r", "i", "n", "g">>,
       cat |-> c_hearing],
      [key |-> <<"r", "e", "s", "o", "l", "u", "t", "i", "o", "n", " ", "l", "h">>,
       cat |-> c_hearing],
      [key |-> <<"a", "d", "m", "i", "n", "i", "s", "t", "r", "a", "t", "i", "v", "e", " ", "o", "r", "d", "e", "r">>,
       cat |-> c_hearing],
      [key |-> <<"c", "o", "n", "t", "r", "a", "c", "t">>,
       cat |-> c_funding],
      [key |-> <<"g", "r", "a", "n", "t">>,
       cat |-> c_funding],
      [key |-> <<"r", "o", "a", "d">>,
       cat |-> c_road],
      [key |-> <<"r", "i", "g", "h", "t", " ", "o", "f", " ", "w", "a", "y">>,
       cat |-> c_road]
    >>

\* "key in mt" on two str values
Contains(mt, key) ==
    \E p \in 0..Len(mt) : LiteralAt(mt, p, key, FALSE)

\* the loop over MATTER_TYPE_CATEGORY.items() from entry k on, and the
\* return after it
RECURSIVE CategorizeLoop(_, _)
CategorizeLoop(mt, k) ==
    IF k > Len(MATTER_TYPE_CATEGORY) THEN c_hearing
    ELSE IF Contains(mt, MATTER_TYPE_CATEGORY[k].key)
         THEN MATTER_TYPE_CATEGORY[k].cat
         ELSE CategorizeLoop(mt, k + 1)

\* variant: a matter type without a mapped key is its own category
_categorize_UnmappedAsIs(matter_type) ==
    IF matter_type = <<>> THEN c_hearing
    ELSE LET mt == LowerStr(matter_type)
         IN  IF \E k \in DOMAIN MATTER_TYPE_CATEGORY :
                    Contains(mt, MATTER_TYPE_CATEGORY[k].key)
             THEN CategorizeLoop(mt, 1)
             ELSE mt

\* _categorize(matter_type); None and "" are both not truthy
_categorize(matter_type) ==
    IF matter_type = <<>> THEN c_hearing
    ELSE CategorizeLoop(LowerStr(matter_type), 1)

\* CATEGORY of stpaul_permits.py
CATEGORY ==
    c_permit

\* CATEGORY_HEARING of stpaul_planning.py
CATEGORY_HEARING ==
    c_hearing

\* the "category" values of the item literals of ramsey_county.py
RamseyCategories ==
    {c_hearing, c_road}

\* the "category" values of the item literals of mndot.py
MndotCategories ==
    {c_road}

\* the "category" values of the item literals of granicus.py
GranicusCategories ==
    {c_hearing}

\* the categories written by the collectors that do not compute them
CollectorCategories ==
    [stpaul_permits  |-> {CATEGORY},
     stpaul_planning |-> {CATEGORY_HEARING},
     ramsey_county   |-> RamseyCategories,
     mndot           |-> MndotCategories,
     granicus        |-> GranicusCategories]

(***************************************************************************)
(* scrapers/ramsey_county.py, scrapers/mndot.py and                        *)
(* scrapers/stpaul_planning.py: fetch and its two sub-scrapes              *)
(***************************************************************************)
\* the two calls of fetch, in the order of the two items.extend lines
SubScrapes ==
    [ramsey_county   |-> <<"_scrape_board_agendas", "_scrape_road_projects">>,
     mndot           |-> <<"_scrape_mndot_projects", "_scrape_metro_transit">>,
     stpaul_planning |-> <<"_scrape_planning_commission", "_scrape_bza">>]

\* the sub-scrapes that end with the loop under "Deduplicate by URL"
DedupsByUrl ==
    {"_scrape_board_agendas", "_scrape_mndot_projects",
     "_scrape_planning_commission"}

SOURCE_LABEL ==
    <<"S", "a", "i", "n", "t", " ", "P", "a", "u", "l", " ", "P", "l", "a", "n", "n", "i", "n", "g">>

s_Ramsey_County ==
    <<"R", "a", "m", "s", "e", "y", " ", "C", "o", "u", "n", "t", "y">>

s_MnDOT_Metro ==
    <<"M", "n", "D", "O", "T", " ", "/", " ", "M", "e", "t", "r", "o">>

\* the loop "for item in items: if item["url"] not in seen: ..."
RECURSIVE UrlDedupLoop(_, _, _)
UrlDedupLoop(items, seen, deduped) ==
    IF items = <<>> THEN deduped
    ELSE LET item == Head(items)
         IN  IF item.url \notin seen
             THEN UrlDedupLoop(Tail(items), seen \cup {item.url},
                               Append(deduped, item))
             ELSE UrlDedupLoop(Tail(items), seen, deduped)

\* variant: the key is url and title, as in the dedup step of main
UrlDedup_ByUrlAndTitle(items) ==
    Dedup(items)

\* "Deduplicate by URL": seen = set(); deduped = []; the loop
UrlDedup(items) ==
    UrlDedupLoop(items, {}, <<>>)

(***************************************************************************)
(* The helpers of ramsey_county.py, mndot.py and stpaul_planning.py that   *)
(* find a date, an address or a case number in a text.  Their regular      *)
(* expressions are matched as re matches them: the leftmost start, each    *)
(* repetition as long as it can be, alternatives in their order.  The      *)
(* texts hold no whitespace other than the space.                          *)
(***************************************************************************)
\* the result of a search that found nothing
NoMatch ==
    [found |-> FALSE, ends |-> <<>>]

\* the result of a search that found a match: ends holds offsets of text
Match(ends) ==
    [found |-> TRUE, ends |-> ends]

\* an element of a pattern: a character of cls repeated from min to max
\* times, max = 0 for no limit
Rep(cls, min, max) ==
    [kind |-> "rep", cls |-> cls, min |-> min, max |-> max,
     options |-> <<>>]

\* an element of a pattern: one of the literals options
Alt(options) ==
    [kind |-> "alt", cls |-> {}, min |-> 0, max |-> 0, options |-> options]

\* the element \b
WordBoundary ==
    [kind |-> "boundary", cls |-> {}, min |-> 0, max |-> 0,
     options |-> <<>>]

\* the elements of a literal
Lit(s) ==
    [i \in DOMAIN s |-> Rep({s[i]}, 1, 1)]

Letters ==
    Range(Upper) \cup Range(LowerCase)

InClass(c, cls, ignorecase) ==
    IF ignorecase THEN Lower(c) \in {Lower(x) : x \in cls} ELSE c \in cls

\* the number of characters of cls that follow offset p of text
RECURSIVE RunLength(_, _, _, _)
RunLength(text, p, cls, ignorecase) ==
    IF p < Len(text) /\ InClass(text[p + 1], cls, ignorecase)
    THEN 1 + RunLength(text, p + 1, cls, ignorecase)
    ELSE 0

\* the match m, or other when m found nothing
OrElse(m, other) ==
    IF m.found THEN m ELSE other

\* an element that ends at offset q, followed by the match rest of the
\* elements after it
Then(q, rest) ==
    IF rest.found THEN Match(<<q>> \o rest.ends) ELSE NoMatch

\* the match of the elements of pat from k on at offset p of text: the
\* offsets at which these elements end, or NoMatch.  A repetition is tried
\* with n characters and then with fewer, the options of an alternative
\* from option i on
RECURSIVE ReMatch(_, _, _, _, _)
RECURSIVE RepMatch(_, _, _, _, _, _)
RECURSIVE AltMatch(_, _, _, _, _, _)
RepMatch(text, p, pat, k, n, ignorecase) ==
    OrElse(Then(p + n, ReMatch(text, p + n, pat, k + 1, ignorecase)),
           IF n > pat[k].min
           THEN RepMatch(text, p, pat, k, n - 1, ignorecase)
           ELSE NoMatch)

AltMatch(text, p, pat, k, i, ignorecase) ==
    IF i > Len(pat[k].options) THEN NoMatch
    ELSE OrElse(IF LiteralAt(text, p, pat[k].options[i], ignorecase)
                THEN Then(p + Len(pat[k].options[i]),
                          ReMatch(text, p + Len(pat[k].options[i]), pat,
                                  k + 1, ignorecase))
                ELSE NoMatch,
                AltMatch(text, p, pat, k, i + 1, ignorecase))

ReMatch(text, p, pat, k, ignorecase) ==
    IF k > Len(pat) THEN Match(<<>>)
    ELSE IF pat[k].kind = "boundary"
    THEN IF Boundary(text, p)
         THEN Then(p, ReMatch(text, p, pat, k + 1, ignorecase))
         ELSE NoMatch
    ELSE IF pat[k].kind = "alt"
    THEN AltMatch(text, p, pat, k, 1, ignorecase)
    ELSE LET run  == RunLength(text, p, pat[k].cls, ignorecase)
             most == IF pat[k].max # 0 /\ pat[k].max < run THEN pat[k].max
                     ELSE run
         IN  IF most < pat[k].min THEN NoMatch
             ELSE RepMatch(text, p, pat, k, most, ignorecase)

\* the leftmost match of pat in text that starts at offset p or later
RECURSIVE SearchFrom(_, _, _, _)
SearchFrom(pat, text, p, ignorecase) ==
    IF p > Len(text) THEN NoMatch
    ELSE OrElse(Then(p, ReMatch(text, p, pat, 1, ignorecase)),
                SearchFrom(pat, text, p + 1, ignorecase))

\* re.search(pat, text): the offset at which the match starts, followed by
\* the offsets at which the elements end, or NoMatch
ReSearch(pat, text, ignorecase) ==
    SearchFrom(pat, text, 0, ignorecase)

\* "a or b" on two str values, None read as ""
Or(a, b) ==
    IF a # <<>> THEN a ELSE b

\* m.group(0)
Group0(text, m) ==
    SubSeq(text, m.ends[1] + 1, m.ends[Len(m.ends)])

\* str.strip() on text whose only whitespace is the space
RECURSIVE Strip(_)
Strip(s) ==
    IF s = <<>> THEN s
    ELSE IF Head(s) = " " THEN Strip(Tail(s))
    ELSE IF s[Len(s)] = " " THEN Strip(SubSeq(s, 1, Len(s) - 1))
    ELSE s

\* str.rstrip(",")
RECURSIVE RStripComma(_)
RStripComma(s) ==
    IF s # <<>> /\ s[Len(s)] = ","
    THEN RStripComma(SubSeq(s, 1, Len(s) - 1))
    ELSE s

\* r"(\w+ \d{1,2},?\s*\d{4})"
DatePatternNamed ==
    <<Rep(WordChars, 1, 0), Rep({" "}, 1, 1), Rep(Range(Digits), 1, 2),
      Rep({","}, 0, 1), Rep({" "}, 0, 0), Rep(Range(Digits), 4, 4)>>

\* r"(\d{1,2}/\d{1,2}/\d{4})"
DatePatternSlash ==
    <<Rep(Range(Digits), 1, 2), Rep({"/"}, 1, 1), Rep(Range(Digits), 1, 2),
      Rep({"/"}, 1, 1), Rep(Range(Digits), 4, 4)>>

\* r"(\d{1,2}/\d{1,2}/\d{2,4})"
DatePatternSlashShort ==
    <<Rep(Range(Digits), 1, 2), Rep({"/"}, 1, 1), Rep(Range(Digits), 1, 2),
      Rep({"/"}, 1, 1), Rep(Range(Digits), 2, 4)>>

\* r"(\d{4}-\d{2}-\d{2})"
DatePatternIso ==
    <<Rep(Range(Digits), 4, 4), Rep({"-"}, 1, 1), Rep(Range(Digits), 2, 2),
      Rep({"-"}, 1, 1), Rep(Range(Digits), 2, 2)>>

\* r"(\d{4})"
DatePatternYear ==
    <<Rep(Range(Digits), 4, 4)>>

\* "%B %d %Y"
FmtNamed ==
    <<Field("B"), Literal(" "), Field("d"), Literal(" "), Field("Y")>>

\* "%B %d, %Y"
FmtNamedComma ==
    <<Field("B"), Literal(" "), Field("d"), Literal(","), Literal(" "),
      Field("Y")>>

\* "%b %d %Y"
FmtAbbr ==
    <<Field("b"), Literal(" "), Field("d"), Literal(" "), Field("Y")>>

\* "%b %d, %Y"
FmtAbbrComma ==
    <<Field("b"), Literal(" "), Field("d"), Literal(","), Literal(" "),
      Field("Y")>>

\* "%m/%d/%Y"
FmtSlash ==
    <<Field("m"), Literal("/"), Field("d"), Literal("/"), Field("Y")>>

\* "%m/%d/%y"
FmtSlashShort ==
    <<Field("m"), Literal("/"), Field("d"), Literal("/"), Field("y")>>

\* "%Y"
FmtYear ==
    <<Field("Y")>>

\* the loop "for fmt in fmts" of _extract_date from format k on: the date
\* of the first format that parses raw, <<>> when none does; a bare year
\* outside 2020..2035 is passed over
RECURSIVE FirstParsed(_, _, _)
FirstParsed(raw, fmts, k) ==
    IF k > Len(fmts) THEN <<>>
    ELSE LET Decide(parsed) ==
                IF parsed.raised THEN FirstParsed(raw, fmts, k + 1)
                ELSE IF /\ fmts[k] = FmtYear
                        /\ ~(2020 <= parsed.year /\ parsed.year <= 2035)
                THEN FirstParsed(raw, fmts, k + 1)
                ELSE parsed.text
         IN  Decide(Strptime(raw, fmts[k]))

\* the body of the loop "for pat, fmts in patterns" of _extract_date on
\* the match m of one pattern: the date of the first format that parses
\* the text matched, <<>> without a match or a format
ParsedGroup(text, m, fmts) ==
    IF m.found
    THEN FirstParsed(RStripComma(Strip(Group0(text, m))), fmts, 1)
    ELSE <<>>

\* the loop "for pat, fmts in patterns" of _extract_date from pattern k
\* on; None is <<>>
RECURSIVE ExtractDateFrom(_, _, _)
ExtractDateFrom(text, patterns, k) ==
    IF k > Len(patterns) THEN <<>>
    ELSE Or(ParsedGroup(text, ReSearch(patterns[k].pat, text, FALSE),
                        patterns[k].fmts),
            ExtractDateFrom(text, patterns, k + 1))

\* patterns of ramsey_county._extract_date
RamseyDatePatterns ==
    <<[pat  |-> DatePatternNamed,
       fmts |-> <<FmtNamed, FmtNamedComma, FmtAbbr, FmtAbbrComma>>],
      [pat |-> DatePatternSlash, fmts |-> <<FmtSlash>>],
      [pat |-> DatePatternIso, fmts |-> <<FmtDate>>]>>

\* ramsey_county._extract_date
_extract_date(text) ==
    ExtractDateFrom(text, RamseyDatePatterns, 1)

\* patterns of mndot._extract_date
MndotDatePatterns ==
    RamseyDatePatterns \o <<[pat |-> DatePatternYear, fmts |-> <<FmtYear>>]>>

\* mndot._extract_date
mndot_extract_date(text) ==
    ExtractDateFrom(text, MndotDatePatterns, 1)

\* stpaul_planning._normalize_date
_normalize_date(raw) ==
    FirstParsed(RStripComma(Strip(raw)),
                <<FmtNamed, FmtNamedComma, FmtAbbr, FmtAbbrComma, FmtSlash,
                  FmtSlashShort, FmtDate>>, 1)

\* the body of the loop of stpaul_planning._extract_date_from_text on the
\* match m of one pattern, other being what the later patterns give
NormalizedGroup(text, m, other) ==
    IF m.found THEN _normalize_date(Group0(text, m)) ELSE other

\* the loop of stpaul_planning._extract_date_from_text from pattern k on:
\* the first pattern found in text decides
RECURSIVE ExtractDateFromText(_, _, _)
ExtractDateFromText(text, patterns, k) ==
    IF k > Len(patterns) THEN <<>>
    ELSE NormalizedGroup(text, ReSearch(patterns[k], text, FALSE),
                         ExtractDateFromText(text, patterns, k + 1))

\* stpaul_planning._extract_date_from_text
_extract_date_from_text(text) ==
    ExtractDateFromText(text, <<DatePatternNamed, DatePatternSlashShort,
                                DatePatternIso>>, 1)

\* the texts around a link in which a date is looked for, innermost
\* first: in ramsey_county.py the text of every li, div, section, article,
\* tr and td that encloses the link, in stpaul_planning.py the text of the
\* first heading of every li, div, section, article and tr that encloses
\* it and has one
Context(link) ==
    Get(link, "context", <<>>)

\* ramsey_county._extract_date_from_context from text k of the context on
RECURSIVE ContextDateFrom(_, _)
ContextDateFrom(texts, k) ==
    IF k > Len(texts) THEN <<>>
    ELSE Or(_extract_date(texts[k]), ContextDateFrom(texts, k + 1))

\* ramsey_county._extract_date_from_context
_extract_date_from_context(link) ==
    ContextDateFrom(Context(link), 1)

\* stpaul_planning._extract_date_from_context from text k of the context
\* on
RECURSIVE HeadingDateFrom(_, _)
HeadingDateFrom(texts, k) ==
    IF k > Len(texts) THEN <<>>
    ELSE Or(_extract_date_from_text(texts[k]),
            HeadingDateFrom(texts, k + 1))

\* stpaul_planning._extract_date_from_context
planning_extract_date_from_context(link) ==
    HeadingDateFrom(Context(link), 1)

\* r"\b\d{2,5}\s+[A-Za-z][A-Za-z\s]+(Ave|St|Blvd|Dr|Rd|Pkwy|Ln|Way|Ct)\b"
AddressPattern ==
    <<WordBoundary, Rep(Range(Digits), 2, 5), Rep({" "}, 1, 0),
      Rep(Letters, 1, 1), Rep(Letters \cup {" "}, 1, 0),
      Alt(<<<<"A", "v", "e">>, <<"S", "t">>, <<"B", "l", "v", "d">>, <<"D",
            "r">>, <<"R", "d">>, <<"P", "k", "w", "y">>, <<"L", "n">>,
            <<"W", "a", "y">>, <<"C", "t">>>>),
      WordBoundary>>

\* m.group(0) if m else other
GroupOr(text, m, other) ==
    IF m.found THEN Group0(text, m) ELSE other

\* ramsey_county._extract_address
_extract_address(text) ==
    GroupOr(text, ReSearch(AddressPattern, text, FALSE), <<>>)

\* r"(I-\d+[A-Z]?)", r"(TH\s*\d+)", r"(MN-\d+)", r"(US-\d+)"
RoutePatterns ==
    <<Lit(<<"I", "-">>) \o <<Rep(Range(Digits), 1, 0), Rep(Range(Upper), 0,
      1)>>,
      Lit(<<"T", "H">>) \o <<Rep({" "}, 0, 0), Rep(Range(Digits), 1, 0)>>,
      Lit(<<"M", "N", "-">>) \o <<Rep(Range(Digits), 1, 0)>>,
      Lit(<<"U", "S", "-">>) \o <<Rep(Range(Digits), 1, 0)>>>>

\* the loop of mndot._extract_route_or_address from pattern k on, and the
\* search for a street address after it
RECURSIVE RouteFrom(_, _)
RouteFrom(text, k) ==
    IF k > Len(RoutePatterns) THEN _extract_address(text)
    ELSE GroupOr(text, ReSearch(RoutePatterns[k], text, TRUE),
                 RouteFrom(text, k + 1))

\* mndot._extract_route_or_address
_extract_route_or_address(text) ==
    RouteFrom(text, 1)

\* r"(file|case|petition|app(?:lication)?)[.\s#]*(\d[\d\-]+)"
case_pattern ==
    <<Alt(<<<<"f", "i", "l", "e">>, <<"c", "a", "s", "e">>, <<"p", "e", "t",
      "i", "t", "i", "o", "n">>, <<"a", "p", "p", "l", "i", "c", "a", "t",
      "i", "o", "n">>, <<"a", "p", "p">>>>),
      Rep({".", " ", "#"}, 0, 0), Rep(Range(Digits), 1, 1),
      Rep(Range(Digits) \cup {"-"}, 1, 0)>>

\* m.group(2) of a match of case_pattern, <<>> without a match
Group2(text, m) ==
    IF m.found THEN SubSeq(text, m.ends[3] + 1, m.ends[5]) ELSE <<>>

\* match.group(2) of case_pattern.search(text)
CaseNumber(text) ==
    Group2(text, ReSearch(case_pattern, text, TRUE))

(***************************************************************************)
(* The items the collectors build: _normalize of stpaul_permits.py and the *)
(* item literals of stpaul_planning.py, ramsey_county.py and mndot.py.     *)
(* Each literal is given the element of the page it is built from; the     *)
(* dash of the titles is written "-".                                      *)
(***************************************************************************)
\* None, and every other value that is not truthy where an item is expected
NoItem ==
    [k \in {} |-> <<>>]

t_dash ==
    <<" ", "-", " ">>

t_Permit ==
    <<"P", "e", "r", "m", "i", "t">>

t_Address_unknown ==
    <<"A", "d", "d", "r", "e", "s", "s", " ", "u", "n", "k", "n", "o", "w",
      "n">>

t_Upcoming ==
    <<"U", "p", "c", "o", "m", "i", "n", "g">>

s_Saint_Paul_DSI ==
    <<"S", "a", "i", "n", "t", " ", "P", "a", "u", "l", " ", "D", "S", "I">>

\* the fields that _normalize describes, each with
\* field.replace("_", " ").title() + ": "
DescriptionFields ==
    <<[field |-> "work_description",
       label |-> <<"W", "o", "r", "k", " ", "D", "e", "s", "c", "r", "i", "p",
                   "t", "i", "o", "n", ":", " ">>],
      [field |-> "contractor_name",
       label |-> <<"C", "o", "n", "t", "r", "a", "c", "t", "o", "r", " ", "N",
                   "a", "m", "e", ":", " ">>],
      [field |-> "owner_name",
       label |-> <<"O", "w", "n", "e", "r", " ", "N", "a", "m", "e", ":",
                   " ">>],
      [field |-> "status",
       label |-> <<"S", "t", "a", "t", "u", "s", ":", " ">>]>>

\* description_parts of _normalize from field k on
RECURSIVE DescriptionParts(_, _)
DescriptionParts(record, k) ==
    IF k > Len(DescriptionFields) THEN <<>>
    ELSE LET val == Strip(Get(record, DescriptionFields[k].field, <<>>))
         IN  (IF val # <<>> THEN <<DescriptionFields[k].label \o val>>
              ELSE <<>>)
                \o DescriptionParts(record, k + 1)

\* " | ".join(parts)
RECURSIVE JoinBar(_)
JoinBar(parts) ==
    IF parts = <<>> THEN <<>>
    ELSE IF Len(parts) = 1 THEN parts[1]
    ELSE parts[1] \o <<" ", "|", " ">> \o JoinBar(Tail(parts))

\* SOURCE_URL_BASE.format(dataset_id=dataset_id), on the one dataset id of
\* the inputs
SOURCE_URL_BASE ==
    [dataset_id \in {"abcd-1234"} |-> "https://data.stpaul.gov/d/abcd-1234"]

\* stpaul_permits._normalize; today is the date of the clock
_normalize(record, cfg, dataset_id, today) ==
    LET address     == Strip(Get(record, cfg.address_field, <<>>))
        permit_type == Strip(Get(record, cfg.type_field, <<>>))
        raw_date    == Get(record, cfg.date_field, <<>>)
        permit_num  == Or(Get(record, "permit_number", <<>>),
                          Or(Get(record, "permit_no", <<>>),
                             Get(record, "id", <<>>)))
        title       == Or(permit_type, t_Permit) \o t_dash
                            \o Or(address, t_Address_unknown)
                            \o (IF permit_num # <<>>
                                THEN <<" ", "(",
                                       "#">> \o permit_num \o <<")">>
                                ELSE <<>>)
        description_parts == DescriptionParts(record, 1)
    IN  IF address = <<>> /\ permit_type = <<>> THEN NoItem
        ELSE [title       |-> title,
              description |-> IF description_parts # <<>>
                              THEN JoinBar(description_parts)
                              ELSE permit_type,
              date        |-> _parse_date(raw_date, today),
              source      |-> Get(cfg, "label", s_Saint_Paul_DSI),
              source_key  |-> "stpaul_permits",
              category    |-> CATEGORY,
              address     |-> address,
              url         |-> SOURCE_URL_BASE[dataset_id],
              raw         |-> record]

\* the hrefs and urls of the inputs, each with its characters
Hrefs ==
    {[url |-> "https://x/1", chars |-> <<"h", "t", "t", "p", "s", ":", "/",
        "/", "x", "/", "1">>],
     [url |-> "https://x/2", chars |-> <<"h", "t", "t", "p", "s", ":", "/",
         "/", "x", "/", "2">>],
     [url |-> "https://x/agenda", chars |-> <<"h", "t", "t", "p", "s", ":",
         "/", "/", "x", "/", "a", "g", "e", "n", "d", "a">>],
     [url   |-> "https://data.stpaul.gov/d/abcd-1234",
      chars |-> <<"h", "t", "t", "p", "s", ":", "/", "/", "d", "a", "t", "a",
                  ".", "s", "t", "p", "a", "u", "l", ".", "g", "o", "v", "/",
                  "d", "/", "a", "b", "c", "d", "-", "1", "2", "3", "4">>],
     [url   |-> "https://base.example/board",
      chars |-> <<"h", "t", "t", "p", "s", ":", "/", "/", "b", "a", "s", "e",
                  ".", "e", "x", "a", "m", "p", "l", "e", "/", "b", "o", "a",
                  "r", "d">>],
     [url   |-> "https://base.example/roads",
      chars |-> <<"h", "t", "t", "p", "s", ":", "/", "/", "b", "a", "s", "e",
                  ".", "e", "x", "a", "m", "p", "l", "e", "/", "r", "o", "a",
                  "d", "s">>],
     [url   |-> "https://base.example/projects",
      chars |-> <<"h", "t", "t", "p", "s", ":", "/", "/", "b", "a", "s", "e",
                  ".", "e", "x", "a", "m", "p", "l", "e", "/", "p", "r", "o",
                  "j", "e", "c", "t", "s">>],
     [url   |-> "https://base.example/transit",
      chars |-> <<"h", "t", "t", "p", "s", ":", "/", "/", "b", "a", "s", "e",
                  ".", "e", "x", "a", "m", "p", "l", "e", "/", "t", "r", "a",
                  "n", "s", "i", "t">>],
     [url   |-> "https://base.example/meetings",
      chars |-> <<"h", "t", "t", "p", "s", ":", "/", "/", "b", "a", "s", "e",
                  ".", "e", "x", "a", "m", "p", "l", "e", "/", "m", "e", "e",
                  "t", "i", "n", "g", "s">>],
     [url   |-> "https://base.example/bza",
      chars |-> <<"h", "t", "t", "p", "s", ":", "/", "/", "b", "a", "s", "e",
                  ".", "e", "x", "a", "m", "p", "l", "e", "/", "b", "z",
                  "a">>],
     [url |-> "/p/2", chars |-> <<"/", "p", "/", "2">>],
     [url |-> "//[bad", chars |-> <<"/", "/", "[", "b", "a", "d">>]}

\* the characters of href
HrefChars(href) ==
    (CHOOSE h \in Hrefs : h.url = href).chars

\* href.startswith("http")
StartsWithHttp(href) ==
    Prefix(HrefChars(href), 4) = <<"h", "t", "t", "p">>

\* urljoin(base, href) raises ValueError ("Invalid IPv6 URL"): after "//"
\* the href opens a bracket that it does not close
UrlJoinRaises(href) ==
    href = "//[bad"

\* urljoin(base, href) on the other relative href of the inputs: a path,
\* which replaces the path of a base on the host base.example
urljoin(base, href) ==
    [h \in {"/p/2"} |-> "https://base.example/p/2"][href]

\* _abs of ramsey_county.py and mndot.py
_abs(href, base) ==
    IF StartsWithHttp(href) THEN href ELSE urljoin(base, href)

\* _absolute_url of stpaul_planning.py
_absolute_url(href, base) ==
    IF StartsWithHttp(href) THEN href ELSE urljoin(base, href)

\* the call of _abs or _absolute_url on href raises
AbsRaises(href) ==
    ~StartsWithHttp(href) /\ UrlJoinRaises(href)

t_Planning_Commission_Agenda ==
    <<"P", "l", "a", "n", "n", "i", "n", "g", " ", "C", "o", "m", "m", "i",
      "s", "s", "i", "o", "n", " ", "A", "g", "e", "n", "d", "a", " ", "-",
      " ">>

t_Planning_Commission_description ==
    <<"S", "a", "i", "n", "t", " ", "P", "a", "u", "l", " ", "P", "l", "a",
      "n", "n", "i", "n", "g", " ", "C", "o", "m", "m", "i", "s", "s", "i",
      "o", "n", " ", "m", "e", "e", "t", "i", "n", "g", " ", "a", "g", "e",
      "n", "d", "a", ".", " ", "R", "e", "v", "i", "e", "w", " ", "f", "o",
      "r", " ", "i", "t", "e", "m", "s", " ", "i", "n", " ", "t", "a", "r",
      "g", "e", "t", " ", "n", "e", "i", "g", "h", "b", "o", "r", "h", "o",
      "o", "d", "s", ".">>

\* A link of a page is given as a record: text and href of the link, and
\* context, the texts around it, absent when there are none.
\* The item literal of _scrape_planning_commission
PlanningCommissionItem(link, url, today) ==
    LET Item(date_str) ==
           [title       |-> t_Planning_Commission_Agenda
                               \o Or(date_str, t_Upcoming),
            description |-> t_Planning_Commission_description,
            date        |-> Or(date_str, today),
            source      |-> SOURCE_LABEL,
            source_key  |-> "stpaul_planning",
            category    |-> CATEGORY_HEARING,
            address     |-> <<>>,
            url         |-> _absolute_url(link.href, url),
            raw         |-> [link_text |-> link.text, href |-> link.href]]
    IN  Item(Or(_extract_date_from_text(link.text),
                planning_extract_date_from_context(link)))

t_Board_of_Zoning_Appeals ==
    <<"B", "o", "a", "r", "d", " ", "o", "f", " ", "Z", "o", "n", "i", "n",
      "g", " ", "A", "p", "p", "e", "a", "l", "s", " ", "-", " ">>

t_Board_of_Zoning_Appeals_description ==
    <<"S", "a", "i", "n", "t", " ", "P", "a", "u", "l", " ", "B", "o", "a",
      "r", "d", " ", "o", "f", " ", "Z", "o", "n", "i", "n", "g", " ", "A",
      "p", "p", "e", "a", "l", "s", " ", "h", "e", "a", "r", "i", "n", "g",
      ".", " ", "R", "e", "v", "i", "e", "w", " ", "f", "o", "r", " ", "v",
      "a", "r", "i", "a", "n", "c", "e", "s", " ", "a", "n", "d", " ", "a",
      "p", "p", "e", "a", "l", "s", " ", "i", "n", " ", "t", "a", "r", "g",
      "e", "t", " ", "n", "e", "i", "g", "h", "b", "o", "r", "h", "o", "o",
      "d", "s", ".">>

\* the item literal of _scrape_bza
BzaItem(link, url, today) ==
    LET Item(date_str) ==
           [title       |-> t_Board_of_Zoning_Appeals
                               \o Or(date_str, t_Upcoming),
            description |-> t_Board_of_Zoning_Appeals_description,
            date        |-> Or(date_str, today),
            source      |-> SOURCE_LABEL,
            source_key  |-> "stpaul_planning",
            category    |-> CATEGORY_HEARING,
            address     |-> <<>>,
            url         |-> _absolute_url(link.href, url),
            raw         |-> [link_text |-> link.text, href |-> link.href]]
    IN  Item(Or(_extract_date_from_text(link.text),
                planning_extract_date_from_context(link)))

t_Planning_Case ==
    <<"P", "l", "a", "n", "n", "i", "n", "g", " ", "C", "a", "s", "e", " ">>

\* A text of the page is given as a record: tag, the text of the node,
\* text, the whole text of the element around it without the white space
\* at the ends of its strings, and link, the first link of that element,
\* absent when it holds none.
\* The item literal of _extract_inline_cases
InlineCaseItem(block, base_url, today) ==
    LET Item(case_num, full_text, date_str) ==
           [title       |-> t_Planning_Case \o case_num,
            description |-> full_text,
            date        |-> Or(date_str, today),
            source      |-> SOURCE_LABEL,
            source_key  |-> "stpaul_planning",
            category    |-> CATEGORY_HEARING,
            address     |-> <<>>,
            url         |-> IF "link" \in DOMAIN block
                            THEN _absolute_url(block.link.href, base_url)
                            ELSE base_url,
            raw         |-> [case_num |-> case_num, text |-> full_text]]
    IN  Item(CaseNumber(block.tag), Prefix(block.text, 200),
             _extract_date_from_text(Prefix(block.text, 200)))

t_Ramsey_County_Board ==
    <<"R", "a", "m", "s", "e", "y", " ", "C", "o", "u", "n", "t", "y", " ",
      "B", "o", "a", "r", "d", " ", "-", " ">>

t_Ramsey_County_Board_description ==
    <<"R", "a", "m", "s", "e", "y", " ", "C", "o", "u", "n", "t", "y", " ",
      "B", "o", "a", "r", "d", " ", "o", "f", " ", "C", "o", "m", "m", "i",
      "s", "s", "i", "o", "n", "e", "r", "s", " ", "m", "e", "e", "t", "i",
      "n", "g", ".", " ", "R", "e", "v", "i", "e", "w", " ", "a", "g", "e",
      "n", "d", "a", " ", "f", "o", "r", " ", "i", "t", "e", "m", "s", " ",
      "a", "f", "f", "e", "c", "t", "i", "n", "g", " ", "S", "a", "i", "n",
      "t", " ", "P", "a", "u", "l", " ", "n", "e", "i", "g", "h", "b", "o",
      "r", "h", "o", "o", "d", "s", ".", " ", "L", "i", "n", "k", ":", " ">>

\* the item literal of _scrape_board_agendas
BoardAgendaItem(link, url, cfg, today) ==
    LET Item(date_str) ==
           [title       |-> t_Ramsey_County_Board
                               \o Or(date_str, t_Upcoming),
            description |-> t_Ramsey_County_Board_description \o link.text,
            date        |-> Or(date_str, today),
            source      |-> Get(cfg, "label", s_Ramsey_County),
            source_key  |-> "ramsey_county",
            category    |-> c_hearing,
            address     |-> <<>>,
            url         |-> _abs(link.href, url),
            raw         |-> [link_text |-> link.text, href |-> link.href]]
    IN  Item(Or(_extract_date(link.text),
                _extract_date_from_context(link)))

t_Ramsey_County_Road_Project ==
    <<"R", "a", "m", "s", "e", "y", " ", "C", "o", "u", "n", "t", "y", " ",
      "R", "o", "a", "d", " ", "P", "r", "o", "j", "e", "c", "t", " ", "-",
      " ">>

\* the item literal of the link scan of _scrape_road_projects
RoadLinkItem(link, url, cfg, today) ==
    [title       |-> t_Ramsey_County_Road_Project \o Prefix(link.text, 80),
     description |-> Prefix(link.text, 300),
     date        |-> today,
     source      |-> Get(cfg, "label", s_Ramsey_County),
     source_key  |-> "ramsey_county",
     category    |-> c_road,
     address     |-> _extract_address(link.text),
     url         |-> _abs(link.href, url),
     raw         |-> [link_text |-> link.text, href |-> link.href]]

t_Road_Project ==
    <<"R", "o", "a", "d", " ", "P", "r", "o", "j", "e", "c", "t", " ", "-",
      " ">>

\* A project block or card is given as its elements: the elements inside
\* it in document order, none inside another, each with name, the name of
\* its tag, "" for a string that lies in the block itself, with string,
\* the one string it holds, and, for a link, with href.
\* None, where an element is expected
NoElement ==
    NoItem

\* the names that re.compile(r"h[2-6]|strong") finds among the names of
\* the elements
RoadHeadingNames ==
    {"h2", "h3", "h4", "h5", "h6", "strong"}

\* the names that re.compile(r"h[2-5]") finds among them
TransitHeadingNames ==
    {"h2", "h3", "h4", "h5"}

\* the first element of elements from position k on that has one of the
\* names, and an href where one is asked for
RECURSIVE FindFrom(_, _, _, _)
FindFrom(elements, names, href, k) ==
    IF k > Len(elements) THEN NoElement
    ELSE IF /\ elements[k].name \in names
            /\ href => "href" \in DOMAIN elements[k]
    THEN elements[k]
    ELSE FindFrom(elements, names, href, k + 1)

\* block.find(name), name one of names
Find(block, names) ==
    FindFrom(block.elements, names, FALSE, 1)

\* block.find("a", href=True)
FindLink(block) ==
    FindFrom(block.elements, {"a"}, TRUE, 1)

\* "".join of the strings of elements from position k on, each stripped
\* and left out when nothing remains of it where strip is asked for
RECURSIVE JoinStrings(_, _, _)
JoinStrings(elements, strip, k) ==
    IF k > Len(elements) THEN <<>>
    ELSE (IF strip THEN Strip(elements[k].string) ELSE elements[k].string)
            \o JoinStrings(elements, strip, k + 1)

\* block.get_text() and block.get_text(strip=True)
get_text(block, strip) ==
    JoinStrings(block.elements, strip, 1)

\* tag.get_text(strip=True) of an element
ElementText(element) ==
    Strip(element.string)

\* the links of the blocks that have one, in document order
BlockLinks(blocks) ==
    LET linked == SelectSeq(blocks,
                            LAMBDA block : FindLink(block) # NoElement)
    IN  [i \in DOMAIN linked |->
            [text |-> ElementText(FindLink(linked[i])),
             href |-> FindLink(linked[i]).href]]

\* neither "if not heading" nor "if not title_text" of
\* _parse_project_block returns None
HasTitle(block) ==
    /\ Find(block, RoadHeadingNames) # NoElement
    /\ ElementText(Find(block, RoadHeadingNames)) # <<>>

\* ramsey_county._parse_project_block
_parse_project_block(block, base_url, cfg, today) ==
    IF ~HasTitle(block) THEN NoItem
    ELSE LET title_text  == ElementText(Find(block, RoadHeadingNames))
             description == IF Find(block, {"p"}) # NoElement
                            THEN Prefix(ElementText(Find(block, {"p"})),
                                        300)
                            ELSE title_text
         IN  [title       |-> t_Road_Project \o Prefix(title_text, 80),
              description |-> description,
              date        |-> Or(_extract_date(get_text(block, FALSE)),
                                 today),
              source      |-> Get(cfg, "label", s_Ramsey_County),
              source_key  |-> "ramsey_county",
              category    |-> c_road,
              address     |-> _extract_address(title_text \o Space
                                                \o description),
              url         |-> IF FindLink(block) # NoElement
                              THEN _abs(FindLink(block).href, base_url)
                              ELSE base_url,
              raw         |-> [block_text |->
                                Prefix(get_text(block, TRUE), 300)]]

t_MnDOT_Project ==
    <<"M", "n", "D", "O", "T", " ", "P", "r", "o", "j", "e", "c", "t", " ",
      "-", " ">>

\* mndot._make_mndot_item
_make_mndot_item(title, description, href, base_url, cfg, today) ==
    [title       |-> t_MnDOT_Project \o Prefix(title, 80),
     description |-> Or(description, title),
     date        |-> Or(mndot_extract_date(title \o Space \o description),
                        today),
     source      |-> Get(cfg, "label", s_MnDOT_Metro),
     source_key  |-> "mndot",
     category    |-> c_road,
     address     |-> _extract_route_or_address(title \o Space
                                                \o description),
     url         |-> _abs(href, base_url),
     raw         |-> [title |-> title, description |-> description]]

t_Metro_Transit ==
    <<"M", "e", "t", "r", "o", " ", "T", "r", "a", "n", "s", "i", "t", " ",
      "-", " ">>

\* the item literal of the containers of _scrape_metro_transit, for a
\* container with a heading
MetroBlockItem(block, url, cfg, today) ==
    LET title_text  == ElementText(Find(block, TransitHeadingNames))
        description == IF Find(block, {"p"}) # NoElement
                       THEN Prefix(ElementText(Find(block, {"p"})), 300)
                       ELSE <<>>
    IN  [title       |-> t_Metro_Transit \o Prefix(title_text, 80),
         description |-> description,
         date        |-> Or(mndot_extract_date(title_text \o Space
                                                \o description),
                            today),
         source      |-> Get(cfg, "label", s_MnDOT_Metro),
         source_key  |-> "mndot",
         category    |-> c_road,
         address     |-> _extract_route_or_address(title_text \o Space
                                                    \o description),
         url         |-> _abs(IF FindLink(block) # NoElement
                              THEN FindLink(block).href
                              ELSE url, url),
         raw         |-> [title       |-> title_text,
                          description |-> description]]

\* the item literal of the link scan of _scrape_metro_transit
MetroLinkItem(link, url, cfg, today) ==
    [title       |-> t_Metro_Transit \o Prefix(link.text, 80),
     description |-> link.text,
     date        |-> today,
     source      |-> Get(cfg, "label", s_MnDOT_Metro),
     source_key  |-> "mndot",
     category    |-> c_road,
     address     |-> <<>>,
     url         |-> _abs(link.href, url),
     raw         |-> [link_text |-> link.text]]

(***************************************************************************)
(* The sub-scrapes of ramsey_county.py, mndot.py and stpaul_planning.py on *)
(* a page that arrived.  A page is given as what the parser finds in it:   *)
(* links, its a elements with an href outside any block, and blocks, its   *)
(* table rows, project blocks or texts outside any link, each in document  *)
(* order.  In the document the links come before the blocks, and in a      *)
(* table row or a text its text comes before its link.  Each of these      *)
(* holds at most one link, and the headings around a link name no case.    *)
(***************************************************************************)
\* any(w in text.lower() for w in words)
AnyWordIn(words, text) ==
    \E w \in words : Contains(LowerStr(text), w)

\* any(w in text_l or w in href_l for w in words)
AnyWordInLink(words, link) ==
    \/ AnyWordIn(words, link.text)
    \/ AnyWordIn(words, HrefChars(link.href))

\* the links inside blocks, in document order
InnerLinks(blocks) ==
    LET linked == SelectSeq(blocks, LAMBDA block : "link" \in DOMAIN block)
    IN  [i \in DOMAIN linked |-> linked[i].link]

\* a sub-scrape that a ValueError of urljoin ends: nothing is returned
Raised ==
    [raised |-> TRUE, constructed |-> <<>>, returned |-> <<>>]

\* a sub-scrape that returns: the items it constructed and, of them, the
\* list it returns, which is "deduped" where the sub-scrape deduplicates
\* by URL and "items" where it does not
Returned(constructed, deduped) ==
    [raised      |-> FALSE,
     constructed |-> constructed,
     returned    |-> IF deduped THEN UrlDedup(constructed) ELSE constructed]

\* _abs or _absolute_url raises on the href of one of these links
SomeAbsRaises(links) ==
    \E i \in DOMAIN links : AbsRaises(links[i].href)

BoardWords ==
    {<<"a", "g", "e", "n", "d", "a">>, <<"m", "i", "n", "u", "t", "e", "s">>,
       <<"b", "o", "a", "r", "d">>, <<"m", "e", "e", "t", "i", "n", "g">>}

\* the two tests of the loop of _scrape_board_agendas
BoardLinkKept(link) ==
    /\ AnyWordInLink(BoardWords, link)
    /\ Len(link.text) >= 4

\* ramsey_county._scrape_board_agendas after the request
_scrape_board_agendas(page, cfg, today) ==
    LET links == SelectSeq(page.links, BoardLinkKept)
    IN  IF SomeAbsRaises(links) THEN Raised
        ELSE Returned([i \in DOMAIN links |->
                        BoardAgendaItem(links[i], cfg.board_url, cfg,
                                        today)],
                      TRUE)

RoadWords ==
    {<<"p", "r", "o", "j", "e", "c", "t">>, <<"c", "o", "n", "s", "t", "r",
       "u", "c", "t", "i", "o", "n">>, <<"r", "e", "s", "u", "r", "f", "a",
       "c">>, <<"r", "e", "c", "o", "n", "s", "t", "r", "u", "c", "t">>,
     <<"u", "t", "i", "l", "i", "t", "y">>, <<"t", "r", "a", "i", "l">>}

\* the tests of the link scan of _scrape_road_projects
RoadLinkKept(link) ==
    /\ Len(link.text) >= 10
    /\ AnyWordInLink(RoadWords, link)

\* ramsey_county._scrape_road_projects after the request
_scrape_road_projects(page, cfg, today) ==
    LET project_blocks == page.blocks
        links == SelectSeq(page.links, RoadLinkKept)
    IN  IF SomeAbsRaises(
                IF project_blocks # <<>>
                THEN BlockLinks(SelectSeq(project_blocks, HasTitle))
                ELSE links)
        THEN Raised
        ELSE Returned(
                IF project_blocks # <<>>
                THEN SelectSeq([i \in DOMAIN project_blocks |->
                                _parse_project_block(project_blocks[i],
                                    cfg.roads_url, cfg, today)],
                               LAMBDA item : item # NoItem)
                ELSE [i \in DOMAIN links |->
                        RoadLinkItem(links[i], cfg.roads_url, cfg, today)],
                FALSE)

\* title_text of a table row: the text of its first cell, or of its link
RowTitle(row) ==
    Or(row.cells[1],
       IF "link" \in DOMAIN row THEN row.link.text ELSE <<>>)

\* the tests of the loop over the table rows of _scrape_mndot_projects
RowKept(row) ==
    /\ Len(row.cells) >= 2
    /\ RowTitle(row) # <<>>
    /\ Len(RowTitle(row)) >= 5

MndotWords ==
    {<<"p", "r", "o", "j", "e", "c", "t">>, <<"c", "o", "n", "s", "t", "r",
       "u", "c", "t", "i", "o", "n">>, <<"h", "i", "g", "h", "w", "a", "y">>,
       <<"i", "n", "t", "e", "r", "c", "h", "a", "n", "g", "e">>,
     <<"b", "r", "i", "d", "g", "e">>, <<"t", "h", " ">>, <<"m", "n", "-">>,
       <<"i", "-", "9", "4">>, <<"i", "-", "3", "5">>, <<"r", "e", "s", "u",
       "r", "f", "a", "c">>,
     <<"r", "e", "c", "o", "n", "s", "t", "r", "u", "c", "t">>}

\* the tests of the link scan of _scrape_mndot_projects
MndotLinkKept(link) ==
    /\ Len(link.text) >= 8
    /\ AnyWordInLink(MndotWords, link)

\* mndot._scrape_mndot_projects after the request
_scrape_mndot_projects(page, cfg, today) ==
    LET url   == cfg.projects_url
        rows  == SelectSeq(page.blocks, RowKept)
        links == SelectSeq(page.links \o InnerLinks(page.blocks),
                           MndotLinkKept)
    IN  IF SomeAbsRaises(IF rows # <<>> THEN InnerLinks(rows) ELSE links)
        THEN Raised
        ELSE Returned(
                IF rows # <<>>
                THEN [i \in DOMAIN rows |->
                        _make_mndot_item(RowTitle(rows[i]),
                            Prefix(JoinBar(Tail(rows[i].cells)), 300),
                            IF "link" \in DOMAIN rows[i]
                            THEN rows[i].link.href
                            ELSE url, url, cfg, today)]
                ELSE [i \in DOMAIN links |->
                        _make_mndot_item(links[i].text, <<>>, links[i].href,
                                         url, cfg, today)],
                TRUE)

TransitWords ==
    {<<"l", "i", "n", "e">>, <<"c", "o", "r", "r", "i", "d", "o", "r">>,
       <<"b", "r", "t">>, <<"b", "u", "s", " ", "r", "a", "p", "i", "d">>,
       <<"l", "i", "g", "h", "t", " ", "r", "a", "i", "l">>,
     <<"s", "t", "r", "e", "e", "t", "c", "a", "r">>, <<"s", "t", "a", "t",
       "i", "o", "n">>, <<"r", "o", "u", "t", "e">>, <<"e", "x", "t", "e",
       "n", "s", "i", "o", "n">>, <<"t", "r", "a", "n", "s", "i", "t", "w",
       "a", "y">>}

\* the tests of the link scan of _scrape_metro_transit
TransitLinkKept(link) ==
    /\ Len(link.text) >= 10
    /\ AnyWordIn(TransitWords, link.text)

\* mndot._scrape_metro_transit after the request
_scrape_metro_transit(page, cfg, today) ==
    LET url == cfg.metro_transit_url
        project_containers == page.blocks
        blocks == SelectSeq(project_containers,
                LAMBDA block : Find(block, TransitHeadingNames) # NoElement)
        links == SelectSeq(page.links, TransitLinkKept)
    IN  IF SomeAbsRaises(IF project_containers # <<>>
                         THEN BlockLinks(blocks)
                         ELSE links)
        THEN Raised
        ELSE Returned(
                IF project_containers # <<>>
                THEN [i \in DOMAIN blocks |->
                        MetroBlockItem(blocks[i], url, cfg, today)]
                ELSE [i \in DOMAIN links |->
                        MetroLinkItem(links[i], url, cfg, today)],
                FALSE)

AgendaWords ==
    {<<"a", "g", "e", "n", "d", "a">>, <<"m", "i", "n", "u", "t", "e", "s">>,
       <<"h", "e", "a", "r", "i", "n", "g">>, <<"m", "e", "e", "t", "i", "n",
       "g">>, <<"n", "o", "t", "i", "c", "e">>}

\* stpaul_planning._is_agenda_link
_is_agenda_link(link) ==
    AnyWordInLink(AgendaWords, link)

\* the text inside a link: the element around it is the link, which holds
\* no link
LinkText(link) ==
    [tag |-> link.text, text |-> link.text]

\* the texts of blocks and of the links inside them, in document order
RECURSIVE BlockTexts(_)
BlockTexts(blocks) ==
    IF blocks = <<>> THEN <<>>
    ELSE <<Head(blocks)>>
         \o ( IF "link" \in DOMAIN Head(blocks)
              THEN <<LinkText(Head(blocks).link)>>
              ELSE <<>> )
         \o BlockTexts(Tail(blocks))

\* the texts of a page, in document order
PageTexts(page) ==
    [i \in DOMAIN page.links |-> LinkText(page.links[i])]
        \o BlockTexts(page.blocks)

\* soup.find_all(string=case_pattern)
CaseTags(page) ==
    SelectSeq(PageTexts(page),
              LAMBDA block : ReSearch(case_pattern, block.tag, TRUE).found)

\* stpaul_planning._extract_inline_cases
_extract_inline_cases(page, base_url, today) ==
    [i \in DOMAIN CaseTags(page) |->
        InlineCaseItem(CaseTags(page)[i], base_url, today)]

\* stpaul_planning._scrape_planning_commission after the request
_scrape_planning_commission(page, cfg, today) ==
    LET url   == cfg.meetings_url
        links == SelectSeq(page.links \o InnerLinks(page.blocks),
                           _is_agenda_link)
    IN  IF SomeAbsRaises(links \o InnerLinks(CaseTags(page))) THEN Raised
        ELSE Returned([i \in DOMAIN links |->
                        PlanningCommissionItem(links[i], url, today)]
                        \o _extract_inline_cases(page, url, today),
                      TRUE)

\* stpaul_planning._scrape_bza after the request
_scrape_bza(page, cfg, today) ==
    LET links == SelectSeq(page.links, _is_agenda_link)
    IN  IF SomeAbsRaises(links) THEN Raised
        ELSE Returned([i \in DOMAIN links |->
                        BzaItem(links[i], cfg.bza_url, today)],
                      FALSE)

\* the call of the sub-scrape named sub
SubScrape(sub, page, cfg, today) ==
    IF sub = "_scrape_board_agendas"
    THEN _scrape_board_agendas(page, cfg, today)
    ELSE IF sub = "_scrape_road_projects"
    THEN _scrape_road_projects(page, cfg, today)
    ELSE IF sub = "_scrape_mndot_projects"
    THEN _scrape_mndot_projects(page, cfg, today)
    ELSE IF sub = "_scrape_metro_transit"
    THEN _scrape_metro_transit(page, cfg, today)
    ELSE IF sub = "_scrape_planning_commission"
    THEN _scrape_planning_commission(page, cfg, today)
    ELSE _scrape_bza(page, cfg, today)

(***************************************************************************)
(* Bounds and input sets                                                   *)
(***************************************************************************)
\* most words in a generated address
MaxWords == 2

\* most items one collector returns
MaxFetch == 2

w_Selby ==
    <<"S", "e", "l", "b", "y">>

w_Ave ==
    <<"A", "v", "e">>

w_Avenue ==
    <<"A", "v", "e", "n", "u", "e">>

w_55104 ==
    <<"5", "5", "1", "0", "4">>

w_k1a ==
    <<"k", "1", "a">>

w_K1A ==
    <<"K", "1", "A">>

w_RAMSEY ==
    <<"R", "A", "M", "S", "E", "Y">>

w_Rondo ==
    <<"R", "o", "n", "d", "o">>

t_Selby_Ave ==
    <<"S", "e", "l", "b", "y", " ", "A", "v", "e">>

t_Hearing_A ==
    <<"H", "e", "a", "r", "i", "n", "g", " ", "A">>

t_rondo_Saint ==
    <<"r", "o", "n", "d", "o", " ", "S", "a", "i", "n", "t">>

t_Paul_Ramseys_551045 ==
    <<"P", "a", "u", "l", " ", "R", "a", "m", "s", "e", "y", "s", " ",
      "5", "5", "1", "0", "4", "5">>

d_2026_01_28 ==
    <<"2", "0", "2", "6", "-", "0", "1", "-", "2", "8">>

AddrWords ==
    {w_Selby, w_Ave, w_Avenue, w_55104, w_k1a, w_RAMSEY}

\* the words of ws joined by single spaces
RECURSIVE JoinWords(_)
JoinWords(ws) ==
    IF ws = <<>> THEN <<>>
    ELSE IF Len(ws) = 1 THEN ws[1]
    ELSE ws[1] \o Space \o JoinWords(Tail(ws))

SeqsUpTo(S, n) ==
    UNION {[1..k -> S] : k \in 0..n}

Addresses ==
    {JoinWords(ws) : ws \in SeqsUpTo(AddrWords, MaxWords)}

\* configurations of the geographic scope; the last one has no list at all
GeoConfigs ==
    [zip_codes     : {<<>>, <<w_55104>>, <<w_K1A>>},
     neighborhoods : {<<>>, <<w_Rondo>>},
     corridors     : {<<>>, <<t_Selby_Ave>>}]
    \cup {[dashboard |-> "d"]}

\* source keys given to filter.apply: the four registered collectors, a
\* collector outside the registry and no key
SourceKeys ==
    {"stpaul_permits", "stpaul_planning", "ramsey_county", "mndot",
     "legistar"}

s_Source ==
    <<"S", "o", "u", "r", "c", "e">>

FilterItems ==
    [title       : {t_Hearing_A, t_rondo_Saint},
     description : {<<>>, t_Paul_Ramseys_551045},
     address     : Addresses,
     source_key  : SourceKeys,
     url         : {"https://x/1"},
     date        : {d_2026_01_28},
     source      : {s_Source},
     category    : {c_hearing},
     raw         : {"raw"}]

\* a notice given to a step of main as input: a dict with the nine keys
\* of an item
Notice(title, url, address, source_key) ==
    [title       |-> title,
     description |-> <<>>,
     address     |-> address,
     source_key  |-> source_key,
     url         |-> url,
     date        |-> d_2026_01_28,
     source      |-> s_Source,
     category    |-> c_hearing,
     raw         |-> "raw"]

d_2026_02_03 ==
    <<"2", "0", "2", "6", "-", "0", "2", "-", "0", "3">>

s_DSI ==
    <<"D", "S", "I">>

s_MnDOT ==
    <<"M", "n", "D", "O", "T">>

\* the date of the clock during the run
today ==
    d_2026_02_03

\* the section "sources" of config.yml: the keys the collectors read
Sources ==
    [stpaul_permits  |-> [dataset_id    |-> "abcd-1234",
                          base_url      |-> "https://data.example",
                          zip_field     |-> "zip",
                          date_field    |-> "issued_date",
                          address_field |-> "address",
                          type_field    |-> "permit_type"],
     stpaul_planning |-> [meetings_url |-> "https://base.example/meetings",
                          bza_url      |-> "https://base.example/bza"],
     ramsey_county   |-> [board_url |-> "https://base.example/board",
                          roads_url |-> "https://base.example/roads"],
     mndot           |-> [projects_url      |->
                                "https://base.example/projects",
                          metro_transit_url |->
                                "https://base.example/transit"]]

t_12_Selby_Ave_Demolition_project ==
    <<"1", "2", " ", "S", "e", "l", "b", "y", " ", "A", "v", "e", " ", "D",
      "e", "m", "o", "l", "i", "t", "i", "o", "n", " ", "p", "r", "o", "j",
      "e", "c", "t">>

t_12_Selby_Ave ==
    <<"1", "2", " ", "S", "e", "l", "b", "y", " ", "A", "v", "e">>

t_Demolition_permit ==
    <<"D", "e", "m", "o", "l", "i", "t", "i", "o", "n", " ", "p", "e", "r",
      "m", "i", "t">>

k_demolition ==
    <<"d", "e", "m", "o", "l", "i", "t", "i", "o", "n">>

k_permit ==
    <<"p", "e", "r", "m", "i", "t">>

k_hearing ==
    <<"h", "e", "a", "r", "i", "n", "g">>

\* records of the permits dataset: a permit whose type and address make
\* the title of the county's road project below, a permit with a padded
\* type only, and a record with neither
PermitRecords ==
    {[permit_type      |-> Prefix(t_Ramsey_County_Road_Project, 26),
      address          |-> t_12_Selby_Ave_Demolition_project,
      issued_date      |-> <<"2", "0", "2", "6", "-", "0", "1", "-", "2", "8",
                             "T", "0", "0", ":", "0", "0", ":", "0", "0", ".",
                             "0", "0", "0">>,
      work_description |-> t_Demolition_permit],
     [permit_type |-> <<" ", "F", "e", "n", "c", "e", " ">>],
     [status |-> <<"I", "s", "s", "u", "e", "d">>]}

\* links of the zoning appeals page that _is_agenda_link accepts, none
\* with a date in or around it
BzaLinks ==
    {[text |-> <<"H", "e", "a", "r", "i", "n", "g", " ", "n", "o", "t", "i",
                 "c", "e">>, href |-> "https://x/1"],
     [text |-> <<"A", "g", "e", "n", "d", "a">>, href |-> "https://x/2"]}

\* a link of the county's roads page, which has no project blocks: it
\* names a road word, and leads to the page of the permits dataset
RoadLinks ==
    {[text |-> t_12_Selby_Ave_Demolition_project,
      href |-> "https://data.stpaul.gov/d/abcd-1234"]}

\* a link of the transit page, which has no project blocks: it names a
\* transit word
TransitLinks ==
    {[text |-> <<"R", "o", "n", "d", "o", " ", "c", "o", "r", "r", "i", "d",
                 "o", "r", " ", "l", "i", "n", "e">>, href |-> "https://x/1"]}

\* what the collector named name may return under config: its fetch, with
\* a first sub-scrape that finds nothing
CollectorItems(name, cfg) ==
    IF name = "stpaul_permits"
    THEN {_normalize(record, cfg, cfg.dataset_id, today) :
            record \in PermitRecords} \ {NoItem}
    ELSE IF name = "stpaul_planning"
    THEN {BzaItem(link, cfg.bza_url, today) : link \in BzaLinks}
    ELSE IF name = "ramsey_county"
    THEN {RoadLinkItem(link, cfg.roads_url, cfg, today) :
            link \in RoadLinks}
    ELSE {MetroLinkItem(link, cfg.metro_transit_url, cfg, today) :
            link \in TransitLinks}

\* the first configuration lists a zip code only; the second names the
\* corridor of the road project and the keyword of its text, in small
\* letters; the third names that corridor and two keywords of that text
PipelineConfigs ==
    {[zip_codes |-> <<w_55104>>, neighborhoods |-> <<>>,
      corridors |-> <<>>, sources |-> Sources],
     [zip_codes |-> <<>>, neighborhoods |-> <<w_Rondo>>,
      corridors |-> <<t_Selby_Ave>>,
      flag_keywords |-> <<k_demolition>>, sources |-> Sources],
     [zip_codes |-> <<>>, neighborhoods |-> <<>>,
      corridors |-> <<t_Selby_Ave>>,
      flag_keywords |-> <<k_demolition, k_permit>>, sources |-> Sources]}

Args ==
    [source    : {"None"} \cup Range(SCRAPERS),
     no_filter : BOOLEAN,
     dry_run   : BOOLEAN]

(***************************************************************************)
(* State                                                                   *)
(***************************************************************************)
VARIABLES
    pc,          \* position of main: "fetch", "dedup", "filter", "flag",
                 \* "generate", "done"
    args,        \* parsed command line
    config,      \* loaded configuration
    todo,        \* collectors the fetch loop has still to run
    outcomes,    \* what each collector run so far did, in run order
    all_items,   \* all_items of main
    deduped,     \* deduped of main
    filtered,    \* filtered of main
    geo_pc,      \* position of the legistar call: "call", "returned"
    geo_text,    \* text given to legistar._geo_matches
    geo_result,  \* its result
    flagged_items,  \* flagged_items of main
    ordered_items,  \* ordered_items of generate.build
    sources,        \* sources of generate.build
    categories,     \* categories of generate.build
    stats,          \* stats of generate.build
    date_pc,        \* a call of a date parser: "idle", "call", "returned"
    date_fn,        \* the parser called
    date_raw,       \* its argument
    date_today,     \* the current date at the call
    date_result,    \* its result
    cat_pc,         \* a call of legistar._categorize: "idle", "call",
                    \* "returned"
    cat_type,       \* the matter type given to it
    cat_result,     \* its result
    col_pc,         \* a call of the fetch of a collector with two
                    \* sub-scrapes: "idle", "call", "second", "returned"
    col_name,       \* the collector called
    col_cfg,        \* its section of the configuration
    col_subs,       \* what each sub-scrape run so far returned, in run order
    col_result      \* the list fetch returned

\* what the flag and generate steps of main produce
outvars ==
    <<flagged_items, ordered_items, sources, categories, stats>>

\* a call of a date parser of a collector
datevars ==
    <<date_pc, date_fn, date_raw, date_today, date_result>>

\* a call of legistar._categorize and a call of the fetch of a collector
scrapevars ==
    <<cat_pc, cat_type, cat_result, col_pc, col_name, col_cfg, col_subs,
      col_result>>

vars ==
    <<pc, args, config, todo, outcomes, all_items, deduped, filtered,
      geo_pc, geo_text, geo_result, outvars, datevars, scrapevars>>

(***************************************************************************)
(* main of run.py, one action per step                                     *)
(***************************************************************************)
\* no collector function is being called on its own
NoScrapeCall ==
    /\ cat_pc = "idle"
    /\ cat_type = <<>>
    /\ cat_result = <<>>
    /\ col_pc = "idle"
    /\ col_name = ""
    /\ col_cfg = <<>>
    /\ col_subs = <<>>
    /\ col_result = <<>>

\* no date parser is being called
NoDateCall ==
    /\ date_pc = "idle"
    /\ date_fn = "None"
    /\ date_raw = <<>>
    /\ date_today = <<>>
    /\ date_result = <<>>

\* nothing flagged or generated yet
NoOutput ==
    /\ flagged_items = <<>>
    /\ ordered_items = <<>>
    /\ sources = <<>>
    /\ categories = <<>>
    /\ stats = [total |-> 0, flagged |-> 0, permits |-> 0, hearings |-> 0,
                roads |-> 0, funding |-> 0]

Init ==
    /\ pc = "fetch"
    /\ args \in Args
    /\ config \in PipelineConfigs
    /\ todo = scrapers_to_run(args)
    /\ outcomes = <<>>
    /\ all_items = <<>>
    /\ deduped = <<>>
    /\ filtered = <<>>
    /\ geo_pc = "idle"
    /\ geo_text = <<>>
    /\ geo_result = FALSE
    /\ NoOutput
    /\ NoDateCall
    /\ NoScrapeCall

AfterCollector ==
    /\ todo' = Tail(todo)
    /\ pc' = IF Tail(todo) = <<>> THEN "dedup" ELSE "fetch"
    /\ UNCHANGED <<args, config, deduped, filtered, geo_pc, geo_text,
                   geo_result, outvars,
                   datevars, scrapevars>>

\* one iteration of the fetch loop in which fetch_fn returns a list
FetchReturns ==
    /\ pc = "fetch"
    /\ todo # <<>>
    /\ \E items \in SeqsUpTo(CollectorItems(Head(todo),
                                       config.sources[Head(todo)]),
                        MaxFetch) :
        /\ all_items' = all_items \o items
        /\ outcomes' = Append(outcomes, [name |-> Head(todo),
                                         raised |-> FALSE,
                                         items |-> items])
    /\ AfterCollector

\* variant: the exception is not caught and ends the run
FetchRaises_Aborts ==
    /\ pc = "fetch"
    /\ todo # <<>>
    /\ pc' = "aborted"
    /\ UNCHANGED <<args, config, todo, outcomes, all_items, deduped,
                   filtered, geo_pc, geo_text, geo_result, outvars,
                   datevars, scrapevars>>

\* one iteration of the fetch loop in which fetch_fn raises an Exception
FetchRaises ==
    /\ pc = "fetch"
    /\ todo # <<>>
    /\ all_items' = all_items
    /\ outcomes' = Append(outcomes, [name |-> Head(todo),
                                     raised |-> TRUE,
                                     items |-> <<>>])
    /\ AfterCollector

\* step 2 of main
DedupStep ==
    /\ pc = "dedup"
    /\ deduped' = Dedup(all_items)
    /\ pc' = "filter"
    /\ UNCHANGED <<args, config, todo, outcomes, all_items, filtered,
                   geo_pc, geo_text, geo_result, outvars, datevars, scrapevars>>

\* variant: the filter is applied even under --no-filter
GeoFilter_IgnoresNoFilter ==
    /\ pc = "filter"
    /\ filtered' = FilterApply(deduped, config)
    /\ pc' = "flag"
    /\ UNCHANGED <<args, config, todo, outcomes, all_items, deduped,
                   geo_pc, geo_text, geo_result, outvars, datevars, scrapevars>>

\* step 3 of main
GeoFilter ==
    /\ pc = "filter"
    /\ filtered' = IF args.no_filter THEN deduped
                   ELSE FilterApply(deduped, config)
    /\ pc' = "flag"
    /\ UNCHANGED <<args, config, todo, outcomes, all_items, deduped,
                   geo_pc, geo_text, geo_result, outvars, datevars, scrapevars>>

\* the item is one that filter.apply passed on, or the filter was skipped
PassedFilter(item) ==
    \/ args.no_filter
    \/ _matches(item, zip_pattern(config), neighborhood_pattern(config),
                corridor_pattern(config))

\* position i of all_items holds the dict that the dedup step kept
KeptByDedup(i) ==
    \A j \in 1..(i - 1) : Key(all_items[j]) # Key(all_items[i])

\* step 4 of main. flag.apply writes into the dicts it is given and
\* returns the list it was given: the dicts of filtered are also the dicts
\* that deduped and all_items hold, so these lists show the annotation too
FlagStep ==
    /\ pc = "flag"
    /\ flagged_items' = FlagApply(filtered, config)
    /\ filtered' = FlagApply(filtered, config)
    /\ deduped' = [i \in 1..Len(deduped) |->
                    IF PassedFilter(deduped[i])
                    THEN FlagItem(deduped[i],
                                  Get(config, "flag_keywords", <<>>))
                    ELSE deduped[i]]
    /\ all_items' = [i \in 1..Len(all_items) |->
                    IF KeptByDedup(i) /\ PassedFilter(all_items[i])
                    THEN FlagItem(all_items[i],
                                  Get(config, "flag_keywords", <<>>))
                    ELSE all_items[i]]
    /\ pc' = IF args.dry_run THEN "done" ELSE "generate"
    /\ UNCHANGED <<args, config, todo, outcomes, geo_pc, geo_text,
                   geo_result, ordered_items, sources, categories, stats,
                   datevars, scrapevars>>

\* variant: the list is sorted in place, as by items.sort()
Generate_SortsInPlace ==
    /\ pc = "generate"
    /\ ordered_items' = OrderedItems(flagged_items)
    /\ flagged_items' = OrderedItems(flagged_items)
    /\ sources' = DistinctSorted(OrderedItems(flagged_items), "source")
    /\ categories' = DistinctSorted(OrderedItems(flagged_items), "category")
    /\ stats' = Stats(OrderedItems(flagged_items))
    /\ pc' = "done"
    /\ UNCHANGED <<args, config, todo, outcomes, all_items, deduped,
                   filtered, geo_pc, geo_text, geo_result, datevars, scrapevars>>

\* step 5 of main: generate.build, up to the call of template.render
Generate ==
    /\ pc = "generate"
    /\ ordered_items' = OrderedItems(flagged_items)
    /\ sources' = DistinctSorted(OrderedItems(flagged_items), "source")
    /\ categories' = DistinctSorted(OrderedItems(flagged_items), "category")
    /\ stats' = Stats(OrderedItems(flagged_items))
    /\ pc' = "done"
    /\ UNCHANGED <<args, config, todo, outcomes, all_items, deduped,
                   filtered, geo_pc, geo_text, geo_result, flagged_items,
                   datevars, scrapevars>>

Next ==
    \/ FetchReturns
    \/ FetchRaises
    \/ DedupStep
    \/ GeoFilter
    \/ FlagStep
    \/ Generate

Spec ==
    Init /\ [][Next]_vars

(***************************************************************************)
(* filter.apply and legistar._geo_matches called on arbitrary input: one   *)
(* notice is given to filter.apply as an item and to _geo_matches as the   *)
(* text of that item                                                       *)
(***************************************************************************)
InitFilter ==
    /\ pc = "filter"
    /\ args = [source |-> "None", no_filter |-> FALSE, dry_run |-> FALSE]
    /\ config \in GeoConfigs
    /\ todo = <<>>
    /\ outcomes = <<>>
    /\ all_items = <<>>
    /\ \E item \in FilterItems :
        /\ deduped = <<item>>
        /\ geo_text = Searchable(item)
    /\ filtered = <<>>
    /\ geo_pc = "call"
    /\ geo_result = FALSE
    /\ NoOutput
    /\ NoDateCall
    /\ NoScrapeCall

\* the call _geo_matches(searchable, geo) of legistar._process_item
GeoMatchesCall ==
    /\ geo_pc = "call"
    /\ geo_result' = _geo_matches(geo_text, _build_geo_patterns(config))
    /\ geo_pc' = "returned"
    /\ UNCHANGED <<pc, args, config, todo, outcomes, all_items, deduped,
                   filtered, geo_text, outvars,
                   datevars, scrapevars>>

NextFilter ==
    \/ GeoFilter
    \/ GeoMatchesCall

SpecFilter ==
    InitFilter /\ [][NextFilter]_vars

(***************************************************************************)
(* flag.apply called on arbitrary input: main stands before step 4 with a  *)
(* list of notices that the skipped filter handed on                       *)
(***************************************************************************)
\* bound: notices in the list given to flag.apply
MaxFlagIn == 2

t_Rehearing_B ==
    <<"R", "e", "h", "e", "a", "r", "i", "n", "g", " ", "B">>

k_DEMOLITION ==
    <<"D", "E", "M", "O", "L", "I", "T", "I", "O", "N">>

\* notices whose text holds no keyword, one, one inside a longer word, two
FlagItems ==
    {Notice(t_Hearing_A, "https://x/1", <<>>, "stpaul_planning"),
     [Notice(t_rondo_Saint, "https://x/1", <<>>, "stpaul_permits")
        EXCEPT !.description = t_Demolition_permit, !.category = c_permit],
     [Notice(t_Hearing_A, "https://x/2", t_Selby_Ave, "ramsey_county")
        EXCEPT !.description = t_Demolition_permit,
               !.date = d_2026_02_03],
     Notice(t_rondo_Saint, "https://x/2", k_DEMOLITION, "mndot"),
     Notice(t_Rehearing_B, "https://x/1", t_Selby_Ave, "stpaul_planning")}

\* flag_keywords absent, empty, in either order, spelled in capitals
FlagConfigs ==
    {[dashboard |-> "d"]}
    \cup [flag_keywords : {<<>>, <<k_hearing>>,
                           <<k_demolition, k_hearing>>,
                           <<k_hearing, k_demolition>>,
                           <<k_DEMOLITION, k_hearing>>}]

InitFlag ==
    /\ pc = "flag"
    /\ args \in [source : {"None"}, no_filter : {TRUE}, dry_run : BOOLEAN]
    /\ config \in FlagConfigs
    /\ todo = <<>>
    /\ outcomes = <<>>
    /\ all_items \in SeqsUpTo(FlagItems, MaxFlagIn)
    /\ Dedup(all_items) = all_items
    /\ deduped = all_items
    /\ filtered = all_items
    /\ geo_pc = "idle"
    /\ geo_text = <<>>
    /\ geo_result = FALSE
    /\ NoOutput
    /\ NoDateCall
    /\ NoScrapeCall

NextFlag ==
    FlagStep

SpecFlag ==
    InitFlag /\ [][NextFlag]_vars

(***************************************************************************)
(* generate.build called on arbitrary input: main stands before step 5     *)
(* with the list that flag.apply returned for a list of distinct notices   *)
(***************************************************************************)
\* bound: notices in the list given to generate.build
MaxOrder == 4

d_2025_12_31 ==
    <<"2", "0", "2", "5", "-", "1", "2", "-", "3", "1">>

\* a category that has no counter in stats
c_meeting ==
    <<"m", "e", "e", "t", "i", "n", "g">>

\* three notices that the keyword hearing flags, two of them of one date,
\* and four that it does not flag, two of them of one date; one notice has
\* no source label, one no category, one a category without counter
OrderItems ==
    {[Notice(t_Hearing_A, "https://x/1", <<>>, "stpaul_permits")
        EXCEPT !.date = d_2026_02_03, !.category = c_permit,
               !.source = s_DSI],
     Notice(t_Hearing_A, "https://x/2", <<>>, "stpaul_planning"),
     [Notice(t_Hearing_A, "https://x/3", <<>>, "stpaul_permits")
        EXCEPT !.category = c_funding, !.source = s_DSI],
     [Notice(t_rondo_Saint, "https://x/1", <<>>, "mndot")
        EXCEPT !.date = d_2026_02_03, !.category = c_road,
               !.source = s_MnDOT],
     [Notice(t_rondo_Saint, "https://x/2", <<>>, "ramsey_county")
        EXCEPT !.category = c_meeting, !.source = <<>>],
     [Notice(t_Rehearing_B, "https://x/1", <<>>, "stpaul_planning")
        EXCEPT !.category = <<>>],
     [Notice(t_rondo_Saint, "https://x/3", <<>>, "mndot")
        EXCEPT !.date = d_2025_12_31, !.source = s_MnDOT]}

InitOrder ==
    /\ pc = "generate"
    /\ args = [source |-> "None", no_filter |-> TRUE, dry_run |-> FALSE]
    /\ config = [flag_keywords |-> <<k_hearing>>]
    /\ todo = <<>>
    /\ outcomes = <<>>
    /\ \E items \in SeqsUpTo(OrderItems, MaxOrder) :
        /\ Dedup(items) = items
        /\ flagged_items = FlagApply(items, config)
    /\ all_items = flagged_items
    /\ deduped = flagged_items
    /\ filtered = flagged_items
    /\ geo_pc = "idle"
    /\ geo_text = <<>>
    /\ geo_result = FALSE
    /\ ordered_items = <<>>
    /\ sources = <<>>
    /\ categories = <<>>
    /\ stats = [total |-> 0, flagged |-> 0, permits |-> 0, hearings |-> 0,
                roads |-> 0, funding |-> 0]
    /\ NoDateCall
    /\ NoScrapeCall

NextOrder ==
    Generate

SpecOrder ==
    InitOrder /\ [][NextOrder]_vars

(***************************************************************************)
(* the date parsers of the collectors called on arbitrary raw dates, while *)
(* main is in its fetch loop                                               *)
(***************************************************************************)
r_2024_01_15 ==
    <<"2", "0", "2", "4", "-", "0", "1", "-", "1", "5">>

r_2024_1_5 ==
    <<"2", "0", "2", "4", "-", "1", "-", "5">>

r_2024_02_30 ==
    <<"2", "0", "2", "4", "-", "0", "2", "-", "3", "0">>

r_2024_13_01 ==
    <<"2", "0", "2", "4", "-", "1", "3", "-", "0", "1">>

r_01_15_2024 ==
    <<"0", "1", "/", "1", "5", "/", "2", "0", "2", "4">>

r_n_a ==
    <<"n", "/", "a">>

r_T00_00_00 ==
    <<"T", "0", "0", ":", "0", "0", ":", "0", "0">>

r_T00_00_00_000 ==
    <<"T", "0", "0", ":", "0", "0", ":", "0", "0", ".", "0", "0", "0">>

r_00_00_00 ==
    <<" ", "0", "0", ":", "0", "0", ":", "0", "0">>

r_t00_00_60 ==
    <<"t", "0", "0", ":", "0", "0", ":", "6", "0">>

\* the raw dates: nothing, a date, a date without leading zeros, two dates
\* that the calendar does not have, a date in another notation, a word;
\* each bare or followed by a time of day
RawDates ==
    {d \o t : d \in {<<>>, r_2024_01_15, r_2024_1_5, r_2024_02_30,
                     r_2024_13_01, r_01_15_2024, r_n_a},
              t \in {<<>>, r_T00_00_00, r_T00_00_00_000, r_00_00_00,
                     r_t00_00_60}}

InitDate ==
    /\ pc = "fetch"
    /\ args = [source |-> "None", no_filter |-> FALSE, dry_run |-> FALSE]
    /\ config \in PipelineConfigs
    /\ todo = scrapers_to_run(args)
    /\ outcomes = <<>>
    /\ all_items = <<>>
    /\ deduped = <<>>
    /\ filtered = <<>>
    /\ geo_pc = "idle"
    /\ geo_text = <<>>
    /\ geo_result = FALSE
    /\ NoOutput
    /\ NoScrapeCall
    /\ date_pc = "call"
    /\ date_fn \in {"_parse_date", "_parse_event_date"}
    /\ date_raw \in RawDates
    /\ date_today \in {d_2026_01_28, d_2026_02_03}
    /\ date_result = <<>>

\* date_str = _parse_date(raw_date) in stpaul_permits._normalize
ParseDateCall ==
    /\ date_pc = "call"
    /\ date_fn = "_parse_date"
    /\ date_result' = _parse_date(date_raw, date_today)
    /\ date_pc' = "returned"
    /\ UNCHANGED <<pc, args, config, todo, outcomes, all_items, deduped,
                   filtered, geo_pc, geo_text, geo_result, outvars,
                   date_fn, date_raw, date_today, scrapevars>>

\* event_date = _parse_event_date(event.get("EventDate", "")) in legistar
ParseEventDateCall ==
    /\ date_pc = "call"
    /\ date_fn = "_parse_event_date"
    /\ date_result' = _parse_event_date(date_raw, date_today)
    /\ date_pc' = "returned"
    /\ UNCHANGED <<pc, args, config, todo, outcomes, all_items, deduped,
                   filtered, geo_pc, geo_text, geo_result, outvars,
                   date_fn, date_raw, date_today, scrapevars>>

NextDate ==
    \/ ParseDateCall
    \/ ParseEventDateCall

SpecDate ==
    InitDate /\ [][NextDate]_vars

(***************************************************************************)
(* steps 2 to 5 of main on an arbitrary fetched list: notices of trusted   *)
(* and of unknown sources, some of them without some of their fields       *)
(***************************************************************************)
\* bound: notices in the fetched list
MaxStage == 3

\* the dict item without the keys in fields
Without(item, fields) ==
    [k \in DOMAIN item \ fields |-> item[k]]

\* a full notice on a corridor; a notice of an unknown source that only a
\* neighborhood name retains; a notice without date; a notice without
\* title and url; a notice of an unknown source with neither title, url,
\* description nor address; a notice without description and address
StageItems ==
    {[Notice(t_Hearing_A, "https://x/1", t_Selby_Ave, "stpaul_planning")
        EXCEPT !.description = t_Demolition_permit],
     Notice(t_rondo_Saint, "https://x/1", <<>>, "legistar"),
     Without([Notice(t_rondo_Saint, "https://x/2", w_55104, "mndot")
                EXCEPT !.category = c_road, !.source = s_MnDOT],
             {"date"}),
     Without([Notice(<<>>, "", t_Selby_Ave, "stpaul_permits")
                EXCEPT !.description = t_Demolition_permit,
                       !.date = d_2026_02_03, !.category = c_permit,
                       !.source = s_DSI],
             {"title", "url"}),
     Without(Notice(<<>>, "", <<>>, "legistar"),
             {"title", "url", "description", "address"}),
     Without([Notice(t_Hearing_A, "https://x/2", <<>>, "ramsey_county")
                EXCEPT !.date = d_2026_02_03],
             {"description", "address"})}

InitStages ==
    /\ pc = "dedup"
    /\ args \in [source : {"stpaul_permits"}, no_filter : BOOLEAN,
                 dry_run : {FALSE}]
    /\ config \in PipelineConfigs
    /\ todo = <<>>
    /\ all_items \in SeqsUpTo(StageItems, MaxStage)
    /\ outcomes = <<[name |-> "stpaul_permits", raised |-> FALSE,
                     items |-> all_items]>>
    /\ deduped = <<>>
    /\ filtered = <<>>
    /\ geo_pc = "idle"
    /\ geo_text = <<>>
    /\ geo_result = FALSE
    /\ NoOutput
    /\ NoDateCall
    /\ NoScrapeCall

NextStages ==
    \/ DedupStep
    \/ GeoFilter
    \/ FlagStep
    \/ Generate

SpecStages ==
    InitStages /\ [][NextStages]_vars

(***************************************************************************)
(* legistar._categorize called on arbitrary matter types, while main is in *)
(* its fetch loop                                                          *)
(***************************************************************************)
MaxTypeWords == 2

m_Ordinance ==
    <<"O", "r", "d", "i", "n", "a", "n", "c", "e">>

m_Resolution_PH ==
    <<"R", "e", "s", "o", "l", "u", "t", "i", "o", "n", "-", "P", "H">>

m_Contract ==
    <<"C", "o", "n", "t", "r", "a", "c", "t">>

m_Grant ==
    <<"G", "r", "a", "n", "t">>

m_Abroad ==
    <<"A", "b", "r", "o", "a", "d">>

m_Right_of_Way ==
    <<"R", "i", "g", "h", "t", " ", "o", "f", " ", "W", "a", "y">>

m_Communication ==
    <<"C", "o", "m", "m", "u", "n", "i", "c", "a", "t", "i", "o", "n">>

m_Appointment ==
    <<"A", "p", "p", "o", "i", "n", "t", "m", "e", "n", "t">>

m_Public_Hearing ==
    <<"P", "u", "b", "l", "i", "c", " ", "H", "e", "a", "r", "i", "n", "g">>

m_RESOLUTION ==
    <<"R", "E", "S", "O", "L", "U", "T", "I", "O", "N">>

TypeWords ==
    {m_Ordinance,
     m_Resolution_PH,
     m_Contract,
     m_Grant,
     m_Abroad,
     m_Right_of_Way,
     m_Communication,
     m_Appointment,
     m_Public_Hearing,
     m_RESOLUTION}

\* matter type names of one to MaxTypeWords words, and the absent name
MatterTypes ==
    {JoinWords(ws) : ws \in SeqsUpTo(TypeWords, MaxTypeWords)}

InitCategory ==
    /\ pc = "fetch"
    /\ args = [source |-> "None", no_filter |-> FALSE, dry_run |-> FALSE]
    /\ config \in PipelineConfigs
    /\ todo = scrapers_to_run(args)
    /\ outcomes = <<>>
    /\ all_items = <<>>
    /\ deduped = <<>>
    /\ filtered = <<>>
    /\ geo_pc = "idle"
    /\ geo_text = <<>>
    /\ geo_result = FALSE
    /\ NoOutput
    /\ NoDateCall
    /\ cat_pc = "call"
    /\ cat_type \in MatterTypes
    /\ cat_result = <<>>
    /\ col_pc = "idle"
    /\ col_name = ""
    /\ col_cfg = <<>>
    /\ col_subs = <<>>
    /\ col_result = <<>>

\* category = _categorize(matter_type)
CategorizeCall ==
    /\ cat_pc = "call"
    /\ cat_pc' = "returned"
    /\ cat_result' = _categorize(cat_type)
    /\ UNCHANGED <<pc, args, config, todo, outcomes, all_items, deduped,
                   filtered, geo_pc, geo_text, geo_result, outvars, datevars,
                   cat_type, col_pc, col_name, col_cfg, col_subs,
                   col_result>>

NextCategory ==
    CategorizeCall

SpecCategory ==
    InitCategory /\ [][NextCategory]_vars

(***************************************************************************)
(* fetch of a collector with two sub-scrapes called on arbitrary pages:    *)
(* each request fails or succeeds, and a page that arrived is read by the  *)
(* sub-scrape                                                              *)
(***************************************************************************)
\* most links and blocks of a page
MaxSub == 2

t_Roads ==
    <<"R", "o", "a", "d", "s">>

\* the dict d with d[key] = val
With(d, key, val) ==
    [k \in DOMAIN d \cup {key} |-> IF k = key THEN val ELSE d[k]]

\* the collector's section of the configuration: without the key
\* "enabled", disabled, and enabled with a label
ColConfigs(name) ==
    {Sources[name],
     With(Sources[name], "enabled", FALSE),
     With(With(Sources[name], "enabled", TRUE), "label", t_Roads)}

t_Corridor_project_meeting ==
    <<"C", "o", "r", "r", "i", "d", "o", "r", " ", "p", "r", "o", "j", "e",
      "c", "t", " ", "m", "e", "e", "t", "i", "n", "g">>

t_January_5_2026 ==
    <<"J", "a", "n", "u", "a", "r", "y", " ", "5", ",", " ", "2", "0", "2",
      "6">>

\* the links of a document, in its order: two of one url, the second with
\* a date in its text; a link with a relative href inside a list item that
\* holds a date; a link whose href urljoin cannot parse; a link that no
\* sub-scrape keeps; a link that its href makes an agenda link
PageLinks ==
    <<[text |-> t_Corridor_project_meeting, href |-> "https://x/1"],
      [text |-> t_Corridor_project_meeting \o Space \o t_January_5_2026,
       href |-> "https://x/1"],
      [text    |-> t_Corridor_project_meeting,
       href    |-> "/p/2",
       context |-> <<<<"1", "/", "5", "/", "2", "0", "2", "6",
                     " ">> \o t_Corridor_project_meeting>>],
      [text |-> t_Corridor_project_meeting, href |-> "//[bad"],
      [text |-> <<"H", "o", "m", "e">>, href |-> "https://x/2"],
      [text |-> <<"H", "o", "m", "e">>, href |-> "https://x/agenda"]>>

t_Bridge_project ==
    <<"B", "r", "i", "d", "g", "e", " ", "p", "r", "o", "j", "e", "c", "t">>

t_Deck_work ==
    <<"D", "e", "c", "k", " ", "w", "o", "r", "k", " ", "a", "t", " ", "1",
      "2", "3", "4", " ", "S", "e", "l", "b", "y", " ", "A", "v", "e", " ",
      "1", "/", "5", "/", "2", "0", "2", "6">>

t_Ramp_closure ==
    <<"I", "-", "9", "4", " ", "r", "a", "m", "p", " ", "c", "l", "o", "s",
      "u", "r", "e", " ", "2", "0", "2", "6">>

\* the article elements of a document, none with a link: a heading and a
\* paragraph; a heading, a space and a paragraph, with a date that begins
\* in the heading; an h6 heading only, which is a heading of a road
\* project and none of a transit project; no heading
ProjectBlocks ==
    <<[elements |-> <<[name |-> "h3", string |-> t_Bridge_project],
                      [name |-> "p", string |-> t_Deck_work]>>],
      [elements |-> <<[name |-> "h3", string |-> <<"S", "t", "a", "r", "t",
                      "s", " ", "J", "a", "n", "u", "a", "r", "y">>],
                      [name |-> "", string |-> Space],
                      [name   |-> "p",
                       string |-> <<"5", ",", " ", "2", "0", "2", "6", " ",
                                    "a", "t", " ", "1", "2", " ", "S", "e",
                                    "l", "b", "y", " ", "A", "v", "e">>]>>],
      [elements |-> <<[name |-> "h6", string |-> t_Ramp_closure]>>],
      [elements |-> <<[name |-> "span", string |-> <<"U", "p", "d", "a", "t",
                      "e", "s">>]>>]>>

\* the table rows of a document: two cells, an empty second cell, a first
\* cell of fewer than five characters, and an empty first cell with a link
\* in the second
TableRows ==
    <<[cells |-> <<t_Bridge_project, t_Deck_work>>],
      [cells |-> <<t_Ramp_closure, <<>>>>],
      [cells |-> <<<<"R", "a", "m", "p">>, t_Deck_work>>],
      [cells |-> <<<<>>, t_Bridge_project>>,
       link  |-> [text |-> t_Bridge_project, href |-> "/p/2"]]>>

\* the texts of a document: two name a case in an element without a link,
\* one names a case in an element with a link, one names no case
CaseTexts ==
    <<[tag  |-> <<"C", "a", "s", "e", " ", "2", "4", "-", "1", "2", "3", " ",
      "v", "a", "r", "i", "a", "n", "c", "e">>,
       text |-> <<"C", "a", "s", "e", " ", "2", "4", "-", "1", "2", "3", " ",
                  "v", "a", "r", "i", "a", "n", "c", "e">>],
      [tag  |-> <<"F", "i", "l", "e", " ", "#", "2", "4", "-", "4", "5", "6",
                  " ", "r", "e", "z", "o", "n", "i", "n", "g">>,
       text |-> <<"F", "i", "l", "e", " ", "#", "2", "4", "-", "4", "5", "6",
                  " ", "r", "e", "z", "o", "n", "i", "n", "g">>],
      [tag  |-> <<"P", "e", "t", "i", "t", "i", "o", "n", " ", "2", "4", "-",
                  "7", "8", "9", " ", "o", "f", " ", "3", "/", "9", "/", "2",
                  "6", " ">>,
       text |-> <<"P", "e", "t", "i", "t", "i", "o", "n", " ", "2", "4", "-",
                  "7", "8", "9", " ", "o", "f", " ", "3", "/", "9", "/", "2",
                  "6", "N", "o", "t", "i", "c", "e">>,
       link |-> [text |-> <<"N", "o", "t", "i", "c", "e">>,
                            href |-> "https://x/1"]],
      [tag |-> <<"C", "o", "n", "t", "a", "c", "t">>, text |-> <<"C", "o",
                 "n", "t", "a", "c", "t">>]>>

\* the blocks that the sub-scrape named sub looks for
PageBlocks(sub) ==
    IF sub \in {"_scrape_road_projects", "_scrape_metro_transit"}
    THEN ProjectBlocks
    ELSE IF sub = "_scrape_mndot_projects" THEN TableRows
    ELSE IF sub = "_scrape_planning_commission" THEN CaseTexts
    ELSE <<>>

\* the elements of s at the positions of P from position i on, in the
\* order of s
RECURSIVE Pick(_, _, _)
Pick(s, P, i) ==
    IF i > Len(s) THEN <<>>
    ELSE (IF i \in P THEN <<s[i]>> ELSE <<>>) \o Pick(s, P, i + 1)

\* the pages given to the sub-scrape named sub: a page holds up to MaxSub
\* of the links and blocks of the document, in its order
Pages(sub) ==
    {[links  |-> Pick(PageLinks, P, 1),
      blocks |-> Pick(PageBlocks(sub), Q, 1)] :
        <<P, Q>> \in {PQ \in (SUBSET DOMAIN PageLinks)
                                \X (SUBSET DOMAIN PageBlocks(sub)) :
                        Cardinality(PQ[1]) + Cardinality(PQ[2]) <= MaxSub}}

InitCollector ==
    /\ pc = "fetch"
    /\ args = [source |-> "None", no_filter |-> FALSE, dry_run |-> FALSE]
    /\ col_name \in DOMAIN SubScrapes
    /\ col_cfg \in ColConfigs(col_name)
    /\ \E pipeline \in PipelineConfigs :
            config = [pipeline EXCEPT !.sources[col_name] = col_cfg]
    /\ todo = scrapers_to_run(args)
    /\ outcomes = <<>>
    /\ all_items = <<>>
    /\ deduped = <<>>
    /\ filtered = <<>>
    /\ geo_pc = "idle"
    /\ geo_text = <<>>
    /\ geo_result = FALSE
    /\ NoOutput
    /\ NoDateCall
    /\ cat_pc = "idle"
    /\ cat_type = <<>>
    /\ cat_result = <<>>
    /\ col_pc = "call"
    /\ col_subs = <<>>
    /\ col_result = <<>>

\* the sub-scrape that fetch calls next
NextSub ==
    SubScrapes[col_name][Len(col_subs) + 1]

\* fetch is about to call a sub-scrape: it was enabled, and one of the two
\* calls is still to come
CallsSub ==
    \/ col_pc = "call" /\ Get(col_cfg, "enabled", TRUE)
    \/ col_pc = "second"

\* "if not cfg.get("enabled", True): return []"
FetchDisabled ==
    /\ col_pc = "call"
    /\ ~Get(col_cfg, "enabled", TRUE)
    /\ col_pc' = "returned"
    /\ col_result' = <<>>
    /\ UNCHANGED <<pc, args, config, todo, outcomes, all_items, deduped,
                   filtered, geo_pc, geo_text, geo_result, outvars, datevars,
                   cat_pc, cat_type, cat_result, col_name, col_cfg, col_subs>>

\* items.extend(returned), and "return items" after the second call
AfterSub(returned) ==
    /\ col_result' = col_result \o returned
    /\ col_pc' = IF col_pc = "call" THEN "second" ELSE "returned"
    /\ UNCHANGED <<pc, args, config, todo, outcomes, all_items, deduped,
                   filtered, geo_pc, geo_text, geo_result, outvars, datevars,
                   cat_pc, cat_type, cat_result, col_name, col_cfg>>

\* an exception leaves the sub-scrape and fetch: no list is returned
FetchRaised ==
    /\ col_pc' = "raised"
    /\ UNCHANGED <<pc, args, config, todo, outcomes, all_items, deduped,
                   filtered, geo_pc, geo_text, geo_result, outvars, datevars,
                   cat_pc, cat_type, cat_result, col_name, col_cfg,
                   col_result>>

\* variant: the RequestException is not caught and ends fetch
SubScrapeFails_Raises ==
    /\ CallsSub
    /\ col_subs' = Append(col_subs, [name        |-> NextSub,
                                     failed      |-> TRUE,
                                     raised      |-> FALSE,
                                     constructed |-> <<>>,
                                     returned    |-> <<>>])
    /\ FetchRaised

\* a sub-scrape whose requests.get or raise_for_status raises a
\* RequestException: "except requests.RequestException: ... return []"
SubScrapeFails ==
    /\ CallsSub
    /\ col_subs' = Append(col_subs, [name        |-> NextSub,
                                     failed      |-> TRUE,
                                     raised      |-> FALSE,
                                     constructed |-> <<>>,
                                     returned    |-> <<>>])
    /\ AfterSub(<<>>)

\* a sub-scrape whose page arrives and that returns: it constructs its
\* items and returns them, after the dedup by url where it has one
SubScrapeReturns ==
    /\ CallsSub
    /\ \E page \in Pages(NextSub) :
        \E outcome \in {SubScrape(NextSub, page, col_cfg, today)} :
            /\ ~outcome.raised
            /\ col_subs' = Append(col_subs,
                    [name        |-> NextSub,
                     failed      |-> FALSE,
                     raised      |-> FALSE,
                     constructed |-> outcome.constructed,
                     returned    |-> outcome.returned])
            /\ AfterSub(outcome.returned)

\* a sub-scrape whose page arrives and holds, in a link it keeps, an href
\* on which urljoin raises ValueError: no except clause of the sub-scrape
\* or of fetch names it
SubScrapeRaises ==
    /\ CallsSub
    /\ \E page \in Pages(NextSub) :
        \E outcome \in {SubScrape(NextSub, page, col_cfg, today)} :
            /\ outcome.raised
            /\ col_subs' = Append(col_subs,
                    [name        |-> NextSub,
                     failed      |-> FALSE,
                     raised      |-> TRUE,
                     constructed |-> outcome.constructed,
                     returned    |-> outcome.returned])
    /\ FetchRaised

NextCollector ==
    \/ FetchDisabled
    \/ SubScrapeFails
    \/ SubScrapeReturns
    \/ SubScrapeRaises

SpecCollector ==
    InitCollector /\ [][NextCollector]_vars

(***************************************************************************)
(* Properties                                                              *)
(***************************************************************************)
DedupDone ==
    pc \notin {"fetch", "dedup"}

FilterDone ==
    pc \notin {"fetch", "dedup", "filter"}

\* two items carry the same (url, title) pair
SamePair(a, b) ==
    /\ Get(a, "url", "") = Get(b, "url", "")
    /\ Get(a, "title", <<>>) = Get(b, "title", <<>>)

\* item occurs in the sequence s
Occurs(item, s) ==
    \E i \in DOMAIN s : s[i] = item

\* C1: the list produced by the dedup step holds no two items with the
\* same (url, title) pair
C1_NoDuplicatePair ==
    DedupDone =>
        \A i, j \in DOMAIN deduped :
            i < j => ~SamePair(deduped[i], deduped[j])

C1_Witness ==
    /\ pc = "filter"
    /\ Len(deduped) >= 2
    /\ Len(deduped) < Len(all_items)

\* positions of all_items that hold the first item of their pair
FirstPositions ==
    {i \in DOMAIN all_items :
        \A j \in 1..(i - 1) : ~SamePair(all_items[j], all_items[i])}

\* the k-th smallest member of the set of naturals S
Nth(S, k) ==
    CHOOSE i \in S : Cardinality({j \in S : j < i}) = k - 1

\* C2: the dedup output is made of the first item of each identity key, in
\* the order these first occurrences have in the input
C2_FirstOccurrenceOrder ==
    DedupDone =>
        /\ Len(deduped) = Cardinality(FirstPositions)
        /\ \A k \in DOMAIN deduped :
            deduped[k] = all_items[Nth(FirstPositions, k)]

C2_Witness ==
    /\ DedupDone
    /\ Len(all_items) >= 3
    /\ SamePair(all_items[1], all_items[3])
    /\ all_items[1] # all_items[3]
    /\ ~SamePair(all_items[1], all_items[2])
    /\ deduped = <<all_items[1], all_items[2]>>

\* C3: the dedup step applied to its own output returns that output
C3_DedupIdempotent ==
    DedupDone => Dedup(deduped) = deduped

C3_Witness ==
    /\ DedupDone
    /\ Len(deduped) >= 3
    /\ Len(all_items) > Len(deduped)
    /\ Dedup(deduped) = deduped

\* the items of the collectors that returned, in run order
RECURSIVE ReturnedItems(_)
ReturnedItems(os) ==
    IF os = <<>> THEN <<>>
    ELSE (IF Head(os).raised THEN <<>> ELSE Head(os).items)
            \o ReturnedItems(Tail(os))

\* the item without the two fields that flag.apply writes
WithoutFlag(item) ==
    [k \in DOMAIN item \ {"flagged", "flag_reasons"} |-> item[k]]

Unflagged(items) ==
    [i \in 1..Len(items) |-> WithoutFlag(items[i])]

\* C4: whichever collectors raise, every collector is run, in registry
\* order, main goes on to dedup, and the fetched list is the concatenation
\* of what the collectors that did not raise returned (the dicts of
\* all_items are annotated later by the flag step)
C4_CollectorFailureIsolated ==
    /\ Unflagged(all_items) = ReturnedItems(outcomes)
    /\ Len(outcomes) <= Len(scrapers_to_run(args))
    /\ \A k \in DOMAIN outcomes :
        outcomes[k].name = scrapers_to_run(args)[k]
    /\ pc # "fetch" => Len(outcomes) = Len(scrapers_to_run(args))
    /\ pc = "fetch" => todo # <<>>

C4_Witness ==
    /\ pc = "dedup"
    /\ Len(outcomes) = Len(SCRAPERS)
    /\ outcomes[1].raised
    /\ outcomes[3].raised
    /\ ~outcomes[2].raised /\ outcomes[2].items # <<>>
    /\ ~outcomes[4].raised /\ outcomes[4].items # <<>>
    /\ all_items = outcomes[2].items \o outcomes[4].items

FullyTrusted ==
    {"stpaul_permits", "stpaul_planning", "ramsey_county"}

\* C5: filter.apply retains every item of a fully trusted source, under
\* every configuration of the three lists
C5_TrustedRetained ==
    FilterDone =>
        \A i \in DOMAIN deduped :
            Get(deduped[i], "source_key", "") \in FullyTrusted
                => Occurs(deduped[i], filtered)

\* w occurs in text delimited on both sides by a non-word character or an
\* end of the text
ContainsWord(text, w, ignorecase) ==
    \E p \in 0..Len(text) :
        /\ LiteralAt(text, p, w, ignorecase)
        /\ p = 0 \/ ~IsWordChar(text[p])
        /\ p + Len(w) = Len(text) \/ ~IsWordChar(text[p + Len(w) + 1])

NoListConfigured ==
    /\ Get(config, "zip_codes", <<>>) = <<>>
    /\ Get(config, "neighborhoods", <<>>) = <<>>
    /\ Get(config, "corridors", <<>>) = <<>>

C5_Witness ==
    /\ FilterDone
    /\ NoListConfigured
    /\ Len(deduped) = 1
    /\ deduped[1].source_key = "ramsey_county"
    /\ ~ContainsWord(Searchable(deduped[1]), t_ramsey, TRUE)
    /\ filtered = deduped

\* C6: an item whose address holds a configured ZIP code as a whole word
\* is retained by filter.apply, whatever its source key
C6_ZipInAddressRetained ==
    FilterDone =>
        \A i \in DOMAIN deduped :
            (\E z \in Range(Get(config, "zip_codes", <<>>)) :
                ContainsWord(Get(deduped[i], "address", <<>>), z, FALSE))
                => Occurs(deduped[i], filtered)

C6_Witness ==
    /\ FilterDone
    /\ config = [zip_codes |-> <<w_55104>>, neighborhoods |-> <<>>,
                 corridors |-> <<>>]
    /\ Len(deduped) = 1
    /\ deduped[1].source_key = "legistar"
    /\ deduped[1].title = t_Hearing_A
    /\ deduped[1].description = <<>>
    /\ deduped[1].address = w_Selby \o Space \o w_55104
    /\ filtered = deduped

EndsWith(c, t) ==
    /\ Len(c) >= Len(t)
    /\ SubSeq(c, Len(c) - Len(t) + 1, Len(c)) = t

\* the corridor c, configured as a stem and an abbreviated suffix, with the
\* suffix spelled out
SpelledForms(c) ==
    {SubSeq(c, 1, Len(c) - Len(SUFFIX_MAP[k].abbr)) \o SUFFIX_MAP[k].full :
        k \in {j \in DOMAIN SUFFIX_MAP :
                EndsWith(c, Space \o SUFFIX_MAP[j].abbr)}}

\* text spells out the suffix of a configured corridor
SpellsOutCorridor(text) ==
    \E c \in Range(Get(config, "corridors", <<>>)) :
        \E sp \in SpelledForms(c) : ContainsWord(text, sp, TRUE)

\* some configured term of the three lists occurs in text as a whole word,
\* in any letter case
AnyTermOccurs(text) ==
    \E t \in Range(Get(config, "zip_codes", <<>>))
             \cup Range(Get(config, "neighborhoods", <<>>))
             \cup Range(Get(config, "corridors", <<>>)) :
        ContainsWord(text, t, TRUE)

Recognized ==
    FullyTrusted \cup {"mndot"}

\* C7 as stated: an item whose text spells out the suffix of a configured
\* corridor matches that corridor in filter.apply and is retained
C7_FilterNormalizesSuffix ==
    FilterDone =>
        \A i \in DOMAIN deduped :
            SpellsOutCorridor(Searchable(deduped[i]))
                => Occurs(deduped[i], filtered)

\* C7 amended: legistar._geo_matches normalizes the text first, so a text
\* that spells out the suffix of a configured corridor matches there;
\* filter.apply matches the text as it is, and drops an item of an
\* unrecognized source in whose text no configured term occurs, spelled-out
\* corridor or not
C7_LegistarNormalizesSuffix ==
    /\ geo_pc = "returned" =>
        (SpellsOutCorridor(geo_text) => geo_result)
    /\ FilterDone =>
        \A i \in DOMAIN deduped :
            (/\ Get(deduped[i], "source_key", "") \notin Recognized
             /\ ~AnyTermOccurs(Searchable(deduped[i])))
                => ~Occurs(deduped[i], filtered)

C7_Witness ==
    /\ geo_pc = "returned"
    /\ FilterDone
    /\ config = [zip_codes |-> <<>>, neighborhoods |-> <<>>,
                 corridors |-> <<t_Selby_Ave>>]
    /\ Len(deduped) = 1
    /\ deduped[1].source_key = "legistar"
    /\ deduped[1].address = w_Selby \o Space \o w_Avenue
    /\ geo_text = Searchable(deduped[1])
    /\ ~ContainsWord(geo_text, t_Selby_Ave, TRUE)
    /\ geo_result
    /\ filtered = <<>>

\* one of the three patterns of filter.apply matches the text of item
PatternMatches(item) ==
    \/ Truthy(zip_pattern(config), Searchable(item))
    \/ Truthy(neighborhood_pattern(config), Searchable(item))
    \/ Truthy(corridor_pattern(config), Searchable(item))

\* C8: an item of an unrecognized source that matches none of the three
\* patterns is dropped, and the run goes on
C8_UnknownSourceDropped ==
    FilterDone =>
        \A i \in DOMAIN deduped :
            (/\ Get(deduped[i], "source_key", "") \notin Recognized
             /\ ~PatternMatches(deduped[i]))
                => ~Occurs(deduped[i], filtered)

C8_Witness ==
    /\ pc = "flag"
    /\ config = [zip_codes |-> <<w_55104>>, neighborhoods |-> <<w_Rondo>>,
                 corridors |-> <<t_Selby_Ave>>]
    /\ Len(deduped) = 1
    /\ deduped[1].source_key = "legistar"
    /\ deduped[1].title = t_Hearing_A
    /\ deduped[1].address = w_RAMSEY
    /\ filtered = <<>>

\* text mentions "Saint Paul" or "Ramsey" as whole words in any letter case
MentionsJurisdiction(text) ==
    \/ ContainsWord(text, t_saint_paul, TRUE)
    \/ ContainsWord(text, t_ramsey, TRUE)

\* one of the fields title, description and address of item mentions them
MentionedInOneField(item) ==
    \/ MentionsJurisdiction(Get(item, "title", <<>>))
    \/ MentionsJurisdiction(Get(item, "description", <<>>))
    \/ MentionsJurisdiction(Get(item, "address", <<>>))

\* C9 as stated: an mndot item that matches none of the three patterns is
\* retained exactly when its title, its description or its address mentions
\* "Saint Paul" or "Ramsey"
C9_MentionInOneField ==
    FilterDone =>
        \A i \in DOMAIN deduped :
            (/\ Get(deduped[i], "source_key", "") = "mndot"
             /\ ~PatternMatches(deduped[i]))
                => (Occurs(deduped[i], filtered)
                        <=> MentionedInOneField(deduped[i]))

\* C9: an mndot item that matches none of the three patterns is retained
\* exactly when the text made of its title, description and address, joined
\* by single spaces, mentions "Saint Paul" or "Ramsey"; a mention in one of
\* the three fields is a mention in that text
C9_MndotJurisdictionMention ==
    FilterDone =>
        \A i \in DOMAIN deduped :
            (/\ Get(deduped[i], "source_key", "") = "mndot"
             /\ ~PatternMatches(deduped[i]))
                => /\ Occurs(deduped[i], filtered)
                        <=> MentionsJurisdiction(Searchable(deduped[i]))
                   /\ MentionedInOneField(deduped[i])
                        => Occurs(deduped[i], filtered)

\* the title ends in "Saint" and the description begins with "Paul": no
\* field mentions either name, the joined text reads "rondo Saint Paul
\* Ramseys 551045 Avenue", and the item is retained
C9_Witness ==
    /\ FilterDone
    /\ Len(deduped) = 1
    /\ deduped[1].source_key = "mndot"
    /\ ~PatternMatches(deduped[1])
    /\ deduped[1].title = t_rondo_Saint
    /\ deduped[1].description = t_Paul_Ramseys_551045
    /\ deduped[1].address = w_Avenue
    /\ ~MentionedInOneField(deduped[1])
    /\ filtered = deduped

\* C10 as stated: a configured ZIP entry that occurs in the text of an item
\* in another letter case matches the ZIP pattern, and the item is retained
C10_ZipCaseInsensitive ==
    FilterDone =>
        \A i \in DOMAIN deduped :
            (\E z \in Range(Get(config, "zip_codes", <<>>)) :
                ContainsWord(Searchable(deduped[i]), z, TRUE))
                => /\ Truthy(zip_pattern(config), Searchable(deduped[i]))
                   /\ Occurs(deduped[i], filtered)

FlagDone ==
    pc \in {"generate", "done"}

ConfiguredKeywords ==
    Get(config, "flag_keywords", <<>>)

\* C11: once flag.apply has returned, every item carries flagged and
\* flag_reasons, flagged is true exactly when flag_reasons is non-empty,
\* and with no keyword configured every item is unflagged without reasons
C11_FlaggerTotal ==
    FlagDone =>
        \A i \in DOMAIN flagged_items :
            /\ {"flagged", "flag_reasons"} \subseteq DOMAIN flagged_items[i]
            /\ flagged_items[i].flagged \in BOOLEAN
            /\ flagged_items[i].flagged
                    <=> flagged_items[i].flag_reasons # <<>>
            /\ ConfiguredKeywords = <<>>
                    => /\ flagged_items[i].flagged = FALSE
                       /\ flagged_items[i].flag_reasons = <<>>

C11_Witness ==
    /\ FlagDone
    /\ "flag_keywords" \notin DOMAIN config
    /\ Len(flagged_items) = 2
    /\ flagged_items[1].title = t_Hearing_A
    /\ flagged_items[2].description = t_Demolition_permit
    /\ \A i \in DOMAIN flagged_items :
            /\ flagged_items[i].flagged = FALSE
            /\ flagged_items[i].flag_reasons = <<>>

\* the place of kw in the keyword list ks
IndexIn(ks, kw) ==
    CHOOSE k \in DOMAIN ks : ks[k] = kw

\* C12: the reasons of an item are keywords of the configuration in the
\* configured spelling, a keyword is among them exactly when it occurs in
\* the text as a whole word in any letter case, and they stand in
\* configuration order
C12_ReasonsInConfigOrder ==
    FlagDone =>
        \A i \in DOMAIN flagged_items :
            LET reasons == flagged_items[i].flag_reasons
                text == Searchable(flagged_items[i])
            IN /\ Range(reasons) \subseteq Range(ConfiguredKeywords)
               /\ \A k \in DOMAIN ConfiguredKeywords :
                    ConfiguredKeywords[k] \in Range(reasons)
                        <=> ContainsWord(text, ConfiguredKeywords[k], TRUE)
               /\ \A r1, r2 \in DOMAIN reasons :
                    r1 < r2 => IndexIn(ConfiguredKeywords, reasons[r1])
                                    < IndexIn(ConfiguredKeywords, reasons[r2])

\* the text reads "Hearing A Demolition permit Selby Ave", the keywords are
\* configured as DEMOLITION before hearing
C12_Witness ==
    /\ FlagDone
    /\ ConfiguredKeywords = <<k_DEMOLITION, k_hearing>>
    /\ \E i \in DOMAIN flagged_items :
            /\ flagged_items[i].title = t_Hearing_A
            /\ flagged_items[i].description = t_Demolition_permit
            /\ flagged_items[i].flag_reasons = <<k_DEMOLITION, k_hearing>>

\* C13: flag.apply returns as many items as it was given, and its i-th
\* result is its i-th argument with the two flag fields written
C13_FlagKeepsLengthAndOrder ==
    [][FlagStep =>
            /\ Len(flagged_items') = Len(filtered)
            /\ \A i \in DOMAIN filtered :
                    WithoutFlag(flagged_items'[i]) = WithoutFlag(filtered[i])
      ]_vars

C13_Witness ==
    /\ FlagDone
    /\ ConfiguredKeywords = <<k_hearing>>
    /\ Len(flagged_items) = 2
    /\ ~flagged_items[1].flagged
    /\ flagged_items[1].title = t_Rehearing_B
    /\ flagged_items[2].flagged

\* generate.build has computed its lists and counts
GenerateDone ==
    pc = "done" /\ ~args.dry_run

\* C14: in the ordered list every flagged item stands before every
\* unflagged item, and of two items of one group the later one does not
\* have the greater date
C14_FlaggedFirstNewestFirst ==
    GenerateDone =>
        \A i, j \in DOMAIN ordered_items :
            i < j =>
                /\ ordered_items[j].flagged => ordered_items[i].flagged
                /\ ordered_items[i].flagged = ordered_items[j].flagged
                    => ~StrLess(ordered_items[i].date, ordered_items[j].date)

\* the input lists an unflagged notice, then an older and a newer flagged
\* one, then a newer unflagged one
C14_Witness ==
    /\ GenerateDone
    /\ Len(flagged_items) = 4
    /\ ~flagged_items[1].flagged
    /\ flagged_items[2].flagged
    /\ flagged_items[3].flagged
    /\ ~flagged_items[4].flagged
    /\ StrLess(flagged_items[2].date, flagged_items[3].date)
    /\ StrLess(flagged_items[1].date, flagged_items[4].date)
    /\ ordered_items = <<flagged_items[3], flagged_items[2],
                         flagged_items[4], flagged_items[1]>>

\* C15: two items of one group and one date stand in the ordered list in
\* the order in which they stood in the list given to generate.build
C15_TiesKeepInputOrder ==
    GenerateDone =>
        \A i, j \in DOMAIN ordered_items :
            (/\ i < j
             /\ ordered_items[i].flagged = ordered_items[j].flagged
             /\ ordered_items[i].date = ordered_items[j].date)
                => IndexIn(flagged_items, ordered_items[i])
                        < IndexIn(flagged_items, ordered_items[j])

\* two flagged notices of one date with a newer one given after them, and
\* an unflagged notice given first
C15_Witness ==
    /\ GenerateDone
    /\ Len(flagged_items) = 4
    /\ ~flagged_items[1].flagged
    /\ flagged_items[2].flagged
    /\ flagged_items[3].flagged
    /\ flagged_items[4].flagged
    /\ flagged_items[2].date = flagged_items[3].date
    /\ StrLess(flagged_items[3].date, flagged_items[4].date)
    /\ ordered_items = <<flagged_items[4], flagged_items[2],
                         flagged_items[3], flagged_items[1]>>

\* the categories that stats counts
Counted ==
    {c_permit, c_hearing, c_road, c_funding}

\* C16: total is the length of the ordered list, flagged the number of its
\* flagged items, and the four category counts add up to the number of
\* items of these four categories, which is at most total
C16_CountsConsistent ==
    GenerateDone =>
        LET four == stats.permits + stats.hearings + stats.roads
                        + stats.funding
        IN /\ stats.total = Len(ordered_items)
           /\ stats.flagged = Cardinality({i \in DOMAIN ordered_items :
                                                ordered_items[i].flagged})
           /\ four <= stats.total
           /\ four = Cardinality({i \in DOMAIN ordered_items :
                                    ordered_items[i].category \in Counted})

\* a flagged permit, a flagged hearing, an unflagged item of a category
\* without counter and an unflagged item without category
C16_Witness ==
    /\ GenerateDone
    /\ stats = [total |-> 4, flagged |-> 2, permits |-> 1, hearings |-> 1,
                roads |-> 0, funding |-> 0]
    /\ \E i \in DOMAIN ordered_items : ordered_items[i].category = c_meeting
    /\ \E i \in DOMAIN ordered_items : ordered_items[i].category = <<>>

\* the list holds the members of S once each, in ascending order
IsSortedListOf(list, S) ==
    /\ Range(list) = S
    /\ \A i, j \in DOMAIN list : i < j => StrLess(list[i], list[j])

\* C17: sources and categories hold the non-empty source labels and
\* category values of the items, each once, in ascending order; with no
\* item both are empty and every count is zero
C17_SourcesAndCategoriesSorted ==
    GenerateDone =>
        /\ IsSortedListOf(sources,
                {flagged_items[i].source : i \in DOMAIN flagged_items}
                    \ {<<>>})
        /\ IsSortedListOf(categories,
                {flagged_items[i].category : i \in DOMAIN flagged_items}
                    \ {<<>>})
        /\ flagged_items = <<>> =>
                /\ sources = <<>>
                /\ categories = <<>>
                /\ \A k \in DOMAIN stats : stats[k] = 0

\* MnDOT is given before DSI, DSI twice, and one notice has no source label
C17_Witness ==
    /\ GenerateDone
    /\ Len(flagged_items) = 4
    /\ flagged_items[1].source = s_MnDOT
    /\ flagged_items[2].source = <<>>
    /\ flagged_items[3].source = s_DSI
    /\ flagged_items[4].source = s_DSI
    /\ sources = <<s_DSI, s_MnDOT>>
    /\ categories = <<c_funding, c_meeting, c_permit, c_road>>

\* the fields that belong to the collector
CollectorFields ==
    {"title", "date", "source_key", "category"}

\* position k of the fetched list holds the first item of its (url, title)
FirstOfItsPair(items, k) ==
    \A j \in 1..(k - 1) : ~SamePair(items[j], items[k])

\* C18: every item of the final ordered list has the title, date,
\* source_key and category of the item that a collector returned under its
\* url and that the dedup step kept
C18_CollectorFieldsUntouched ==
    GenerateDone =>
        \A i \in DOMAIN ordered_items :
            \E k \in DOMAIN ReturnedItems(outcomes) :
                LET given == ReturnedItems(outcomes)[k]
                IN /\ FirstOfItsPair(ReturnedItems(outcomes), k)
                   /\ given.url = ordered_items[i].url
                   /\ \A f \in CollectorFields :
                        ordered_items[i][f] = given[f]

\* a run in which dedup removed an item, the filter ran, an item was
\* flagged and the ordering moved it ahead
C18_Witness ==
    /\ GenerateDone
    /\ ~args.no_filter
    /\ Len(deduped) < Len(all_items)
    /\ Len(ordered_items) > 1
    /\ ordered_items # flagged_items
    /\ ordered_items[1].flagged
    /\ ordered_items[1].title
            = t_Ramsey_County_Road_Project
                \o t_12_Selby_Ave_Demolition_project

\* the collector that returned position k of the fetched list
RECURSIVE CollectorOf(_, _)
CollectorOf(os, k) ==
    IF Head(os).raised THEN CollectorOf(Tail(os), k)
    ELSE IF k <= Len(Head(os).items) THEN Head(os).name
    ELSE CollectorOf(Tail(os), k - Len(Head(os).items))

\* the item lies on a configured corridor and its description holds the
\* configured keyword kw in another letter case
OnCorridorWithKeyword(item, kw) ==
    /\ Get(config, "corridors", <<>>) # <<>>
    /\ \E c \in Range(Get(config, "corridors", <<>>)) :
            ContainsWord(item.address, c, TRUE)
    /\ kw \in Range(ConfiguredKeywords)
    /\ ContainsWord(item.description, kw, TRUE)
    /\ ~ContainsWord(item.description, kw, FALSE)

\* two collectors returned, at positions p and q of the fetched list, such
\* an item under one url and title
ReportedTwice(p, q, kw) ==
    /\ p < q
    /\ CollectorOf(outcomes, p) # CollectorOf(outcomes, q)
    /\ SamePair(ReturnedItems(outcomes)[p], ReturnedItems(outcomes)[q])
    /\ OnCorridorWithKeyword(ReturnedItems(outcomes)[p], kw)
    /\ OnCorridorWithKeyword(ReturnedItems(outcomes)[q], kw)

\* position i of the ordered list holds the item of position p of the
\* fetched list, no other position holds it, it is flagged, and it stands
\* among the flagged items at the head
OnceAmongFlagged(i, p) ==
    /\ SamePair(ordered_items[i], ReturnedItems(outcomes)[p])
    /\ \A j \in DOMAIN ordered_items :
            SamePair(ordered_items[j], ordered_items[i]) => j = i
    /\ ordered_items[i].flagged = TRUE
    /\ \A j \in 1..i : ordered_items[j].flagged
    /\ i <= stats.flagged

\* the configured keywords that text holds as whole words in any letter
\* case, in the order of the configuration
KeywordsHeld(text) ==
    SelectSeq(ConfiguredKeywords, LAMBDA k : ContainsWord(text, k, TRUE))

\* C19 as stated: an item that two collectors return under one url and
\* title, on a configured corridor and holding a configured keyword in
\* another letter case, stands in the final ordered list exactly once,
\* flagged, with the list of that keyword alone as its reasons, among the
\* flagged items at the head
C19_ReasonsHoldThatKeywordOnly ==
    GenerateDone =>
        \A p, q \in DOMAIN ReturnedItems(outcomes) :
            \A kw \in Range(ConfiguredKeywords) :
                ReportedTwice(p, q, kw) =>
                    \E i \in DOMAIN ordered_items :
                        /\ OnceAmongFlagged(i, p)
                        /\ ordered_items[i].flag_reasons = <<kw>>

\* C19: such an item stands in the final ordered list exactly once,
\* flagged, among the flagged items at the head; its reasons are the
\* configured keywords that the text of its title, description and address
\* holds, in the order of the configuration: that keyword is one of them,
\* and it is the only one when the text holds no other configured keyword
C19_EndToEnd ==
    GenerateDone =>
        \A p, q \in DOMAIN ReturnedItems(outcomes) :
            \A kw \in Range(ConfiguredKeywords) :
                ReportedTwice(p, q, kw) =>
                    \E i \in DOMAIN ordered_items :
                        /\ OnceAmongFlagged(i, p)
                        /\ ordered_items[i].flag_reasons
                                = KeywordsHeld(Searchable(ordered_items[i]))
                        /\ kw \in Range(ordered_items[i].flag_reasons)
                        /\ KeywordsHeld(Searchable(ordered_items[i])) = <<kw>>
                                => ordered_items[i].flag_reasons = <<kw>>

\* the permits dataset and the county's roads page both reported "Ramsey
\* County Road Project - 12 Selby Ave Demolition project" under the url of
\* the dataset, with "demolition" and "permit" configured; the filter ran,
\* the permit was kept with both keywords as its reasons, and the list
\* also holds an unflagged item
C19_Witness ==
    /\ GenerateDone
    /\ ~args.no_filter
    /\ ConfiguredKeywords = <<k_demolition, k_permit>>
    /\ \E p, q \in DOMAIN ReturnedItems(outcomes) :
            /\ ReportedTwice(p, q, k_demolition)
            /\ CollectorOf(outcomes, p) = "stpaul_permits"
            /\ CollectorOf(outcomes, q) = "ramsey_county"
    /\ \E i \in DOMAIN ordered_items : ~ordered_items[i].flagged
    /\ \E i \in DOMAIN ordered_items :
            /\ ordered_items[i].url = "https://data.stpaul.gov/d/abcd-1234"
            /\ ordered_items[i].title
                    = t_Ramsey_County_Road_Project
                        \o t_12_Selby_Ave_Demolition_project
            /\ ordered_items[i].source_key = "stpaul_permits"
            /\ ordered_items[i].description
                    = DescriptionFields[1].label \o t_Demolition_permit
            /\ ordered_items[i].flag_reasons = <<k_demolition, k_permit>>

\* the same run with "demolition" as the only configured keyword: the
\* reasons of the permit are that keyword alone
C19_OneKeywordReached ==
    /\ GenerateDone
    /\ ConfiguredKeywords = <<k_demolition>>
    /\ \E p, q \in DOMAIN ReturnedItems(outcomes) :
            ReportedTwice(p, q, k_demolition)
    /\ \E i \in DOMAIN ordered_items :
            /\ ordered_items[i].source_key = "stpaul_permits"
            /\ ordered_items[i].flag_reasons = <<k_demolition>>

\* s has the form YYYY-MM-DD and names a day of the calendar
IsIsoDate(s) ==
    /\ Len(s) = 10
    /\ s[5] = "-" /\ s[8] = "-"
    /\ AllDigits(SubSeq(s, 1, 4) \o SubSeq(s, 6, 7) \o SubSeq(s, 9, 10))
    /\ IntOf(SubSeq(s, 1, 4)) >= 1
    /\ IntOf(SubSeq(s, 6, 7)) \in 1..12
    /\ IntOf(SubSeq(s, 9, 10))
            \in 1..DaysInMonth(IntOf(SubSeq(s, 1, 4)),
                               IntOf(SubSeq(s, 6, 7)))

\* a date can be determined from raw: it begins with a date in YYYY-MM-DD
\* form, or one of the formats of _parse_date reads it
Determinable(raw) ==
    \/ IsIsoDate(Prefix(raw, 10))
    \/ \E k \in DOMAIN ParseDateFormats :
            ~Strptime(Prefix(raw, 19), ParseDateFormats[k]).raised

\* C20 as stated: the date that a collector's parser returns has the form
\* YYYY-MM-DD, and it is the current date whenever no date can be determined
\* from the raw value
C20_DateAlwaysValid ==
    date_pc = "returned" =>
        /\ IsIsoDate(date_result)
        /\ ~Determinable(date_raw) => date_result = date_today

\* C21 as stated: a stage leaves the list it is given, and the items of that
\* list, as they were
C21_StagesLeaveInputUnchanged ==
    [][/\ DedupStep => all_items' = all_items
       /\ GeoFilter => deduped' = deduped
       /\ FlagStep => filtered' = filtered
       /\ Generate => flagged_items' = flagged_items
      ]_vars

\* C21 amended: the dedup step, the filter and generate.build leave their
\* argument as it was; flag.apply returns the list it was given, whose
\* items differ from what they were in flagged and flag_reasons only
C21_OnlyFlaggerAnnotatesInput ==
    [][/\ DedupStep => all_items' = all_items
       /\ GeoFilter => deduped' = deduped
       /\ FlagStep => /\ flagged_items' = filtered'
                      /\ Unflagged(filtered') = Unflagged(filtered)
                      /\ \A i \in DOMAIN filtered' :
                            {"flagged", "flag_reasons"}
                                \subseteq DOMAIN filtered'[i]
       /\ Generate => flagged_items' = flagged_items
      ]_vars

\* a run through all four stages in which the ordering moved an item
C21_Witness ==
    /\ GenerateDone
    /\ Len(all_items) > Len(deduped)
    /\ Len(flagged_items) = 3
    /\ ordered_items # flagged_items
    /\ \E i \in DOMAIN filtered : filtered[i].flag_reasons # <<>>

\* the items as a second run fetches them: the same but for raw, which
\* differs at every other position
Reraw(items) ==
    [i \in 1..Len(items) |->
        [items[i] EXCEPT !.raw = IF i % 2 = 1 THEN "other" ELSE @]]

\* the items without raw and without the fields that flag.apply writes
Bare(items) ==
    [i \in 1..Len(items) |->
        Without(items[i], {"raw", "flagged", "flag_reasons"})]

NoRaw(items) ==
    [i \in 1..Len(items) |-> Without(items[i], {"raw"})]

\* C22: a run on items that differ from those of this run in raw only keeps
\* the same items in the dedup step and in the filter, flags them alike,
\* orders them alike and counts the same
C22_RawDoesNotInfluence ==
    GenerateDone =>
        LET deduped2  == Dedup(Reraw(ReturnedItems(outcomes)))
            filtered2 == IF args.no_filter THEN deduped2
                         ELSE FilterApply(deduped2, config)
            flagged2  == FlagApply(filtered2, config)
            ordered2  == OrderedItems(flagged2)
        IN /\ Bare(deduped2) = Bare(deduped)
           /\ Bare(filtered2) = Bare(filtered)
           /\ NoRaw(flagged2) = NoRaw(flagged_items)
           /\ NoRaw(ordered2) = NoRaw(ordered_items)
           /\ Stats(ordered2) = stats
           /\ DistinctSorted(ordered2, "source") = sources
           /\ DistinctSorted(ordered2, "category") = categories

\* the run removed a duplicate, dropped an item in the filter and flagged
\* the item that was left
C22_Witness ==
    /\ GenerateDone
    /\ Len(all_items) = 3
    /\ Len(deduped) = 2
    /\ Len(filtered) = 1
    /\ ordered_items[1].flagged
    /\ stats.total = 1

\* the fields that a stage reads with a default, and the empty string in
\* the form the field has
Defaulted ==
    [title |-> <<>>, description |-> <<>>, address |-> <<>>, url |-> "",
     date |-> <<>>]

\* the item with each of these fields that it lacks set to the empty string
Filled(item) ==
    [k \in DOMAIN item \cup DOMAIN Defaulted |->
        IF k \in DOMAIN item THEN item[k] ELSE Defaulted[k]]

FilledAll(items) ==
    [i \in 1..Len(items) |-> Filled(items[i])]

\* C23: the four stages run to the end on items that lack title,
\* description, address, url or date, and what they keep, flag, order and
\* count is what they keep, flag, order and count when every lacking field
\* is present and empty
C23_MissingFieldsAsEmpty ==
    GenerateDone =>
        LET deduped2  == Dedup(FilledAll(ReturnedItems(outcomes)))
            filtered2 == IF args.no_filter THEN deduped2
                         ELSE FilterApply(deduped2, config)
            flagged2  == FlagApply(filtered2, config)
            ordered2  == OrderedItems(flagged2)
        IN /\ deduped2 = FilledAll(Unflagged(deduped))
           /\ filtered2 = FilledAll(Unflagged(filtered))
           /\ flagged2 = FilledAll(flagged_items)
           /\ ordered2 = FilledAll(ordered_items)
           /\ Stats(ordered2) = stats
           /\ DistinctSorted(ordered2, "source") = sources
           /\ DistinctSorted(ordered2, "category") = categories

\* two different notices without title and url, of which the dedup step
\* keeps the first, and a notice without date, which comes out last
C23_Witness ==
    /\ GenerateDone
    /\ Len(all_items) = 3
    /\ DOMAIN all_items[1] \cap {"title", "url"} = {}
    /\ DOMAIN all_items[2] \cap {"title", "url"} = {}
    /\ "description" \in DOMAIN all_items[1]
    /\ "description" \notin DOMAIN all_items[2]
    /\ "date" \notin DOMAIN all_items[3]
    /\ Len(deduped) = 2
    /\ Len(ordered_items) = 2
    /\ "date" \notin DOMAIN ordered_items[2]
    /\ "title" \notin DOMAIN ordered_items[1]


\* some key of MATTER_TYPE_CATEGORY is contained in the lower-cased type
MappedKeyIn(matter_type) ==
    \E k \in DOMAIN MATTER_TYPE_CATEGORY :
        Contains(LowerStr(matter_type), MATTER_TYPE_CATEGORY[k].key)

\* C24: every category a collector writes into an item is one of permit,
\* hearing, road and funding: the literal categories of the collectors
\* are, _categorize returns one of the four for every matter type, and it
\* returns hearing for a matter type that, letter case aside, contains none
\* of the mapped keys
C24_CategoryInClosedSet ==
    /\ \A name \in DOMAIN CollectorCategories :
            CollectorCategories[name] \subseteq Counted
    /\ cat_pc = "returned" =>
        /\ cat_result \in Counted
        /\ ~MappedKeyIn(cat_type) => cat_result = c_hearing

\* a two-word matter type without a mapped key has been categorized
C24_Witness ==
    /\ cat_pc = "returned"
    /\ cat_type = m_Communication \o Space \o m_Appointment
    /\ ~MappedKeyIn(cat_type)
    /\ cat_result = c_hearing


\* the place of a position of main in the order of its steps
StageRank ==
    [fetch |-> 1, dedup |-> 2, filter |-> 3, flag |-> 4, generate |-> 5,
     done |-> 6]

\* C25: main goes through its steps in the order fetch, dedup, geo-filter,
\* flag, generate and never back; each step after the fetch loop is left by
\* the one step that executes it. Under --no-filter the filter step hands
\* the dedup output on unchanged and the Flagger is applied to it; the
\* Flagger is applied in every run, since the end is reached from the flag
\* step alone (--dry-run) or from it through generate; under --dry-run the
\* results of generate are never written
C25_StagesOnceInOrder ==
    [][/\ args' = args
       /\ StageRank[pc'] >= StageRank[pc]
       /\ pc = "fetch" => pc' \in {"fetch", "dedup"}
       /\ pc = "dedup" => pc' = "filter"
       /\ pc = "filter" =>
            /\ pc' = "flag"
            /\ args.no_filter => filtered' = deduped
            /\ ~args.no_filter => filtered' = FilterApply(deduped, config)
       /\ pc = "flag" =>
            /\ pc' = IF args.dry_run THEN "done" ELSE "generate"
            /\ flagged_items' = FlagApply(filtered, config)
            /\ args.no_filter => flagged_items' = FlagApply(deduped, config)
       /\ pc = "generate" =>
            /\ pc' = "done"
            /\ ordered_items' = OrderedItems(flagged_items)
       /\ pc # "generate" =>
            UNCHANGED <<ordered_items, sources, categories, stats>>
       /\ pc # "flag" => flagged_items' = flagged_items
       /\ args.dry_run => pc' # "generate"
      ]_vars

\* a run under --no-filter and --dry-run has ended: the Flagger annotated
\* the whole dedup output, one notice of which the filter would have
\* dropped, and nothing was generated
C25_Witness ==
    /\ pc = "done"
    /\ args.no_filter
    /\ args.dry_run
    /\ Len(all_items) > Len(deduped)
    /\ flagged_items = deduped
    /\ Len(FilterApply(deduped, config)) < Len(deduped)
    /\ \A i \in DOMAIN flagged_items : "flagged" \in DOMAIN flagged_items[i]
    /\ ordered_items = <<>>
    /\ stats.total = 0

\* the positions of items that hold the first item of their url
FirstOfUrl(items) ==
    {i \in DOMAIN items : \A j \in 1..(i - 1) : items[j].url # items[i].url}

\* the calls of sub-scrapes that fetch has made so far
SubCalls ==
    DOMAIN col_subs

\* C26: a sub-scrape whose request failed returns the empty list and fetch
\* goes on: the failed request never ends fetch (fetch ends by an exception
\* only when the sub-scrape it called last read its page and raised there),
\* fetch returns once both sub-scrapes returned, and what it returns is
\* what the first sub-scrape returned followed by what the second returned,
\* so that the items of the sub-scrape that did not fail are all there
C26_FailedSubScrapeContributesNothing ==
    /\ col_pc \in {"idle", "call", "second", "returned", "raised"}
    /\ col_pc = "raised" =>
            /\ col_subs # <<>>
            /\ col_subs[Len(col_subs)].raised
            /\ ~col_subs[Len(col_subs)].failed
    /\ \A k \in SubCalls :
            col_subs[k].failed =>
                /\ col_subs[k].returned = <<>>
                /\ ~col_subs[k].raised
    /\ col_pc = "second" =>
            Len(col_subs) = 1 /\ col_result = col_subs[1].returned
    /\ (Len(col_subs) = 2 /\ \A k \in SubCalls : ~col_subs[k].raised) =>
            col_pc = "returned"
    /\ (col_pc = "returned" /\ Get(col_cfg, "enabled", TRUE)) =>
            /\ Len(col_subs) = 2
            /\ col_subs[1].name = SubScrapes[col_name][1]
            /\ col_subs[2].name = SubScrapes[col_name][2]
            /\ col_result = col_subs[1].returned \o col_subs[2].returned
            /\ (col_subs[1].failed /\ ~col_subs[2].failed) =>
                    col_result = col_subs[2].returned
            /\ (col_subs[2].failed /\ ~col_subs[1].failed) =>
                    col_result = col_subs[1].returned

\* fetch of ramsey_county returned the two road projects although the
\* request for the board agendas failed
C26_Witness ==
    /\ col_pc = "returned"
    /\ col_name = "ramsey_county"
    /\ Len(col_subs) = 2
    /\ col_subs[1].failed
    /\ ~col_subs[2].failed
    /\ Len(col_subs[2].constructed) = 2
    /\ col_result = col_subs[2].constructed
    /\ \A i \in DOMAIN col_result : col_result[i].category = c_road

\* C27: a sub-scrape that deduplicates by url returns, of the items it
\* constructed, the first of every url, in the order of construction: the
\* urls of the returned list are pairwise distinct, whatever the titles
C27_UrlDedupKeepsFirstOfUrl ==
    \A k \in SubCalls :
        (/\ col_subs[k].name \in DedupsByUrl
         /\ ~col_subs[k].failed
         /\ ~col_subs[k].raised) =>
            LET c == col_subs[k].constructed
                r == col_subs[k].returned
            IN  /\ \A i, j \in DOMAIN r : r[i].url = r[j].url => i = j
                /\ Len(r) = Cardinality(FirstOfUrl(c))
                /\ \A i \in FirstOfUrl(c) :
                        r[Cardinality({j \in FirstOfUrl(c) : j <= i})] = c[i]

\* the Planning Commission page named two cases in elements without a
\* link: both items fell back to the url of the page, under two titles, and
\* fetch returned the first of them alone
C27_Witness ==
    /\ col_pc = "returned"
    /\ col_name = "stpaul_planning"
    /\ Len(col_subs) = 2
    /\ Len(col_subs[1].constructed) = 2
    /\ col_subs[1].constructed[1].url = col_cfg.meetings_url
    /\ col_subs[1].constructed[2].url = col_cfg.meetings_url
    /\ col_subs[1].constructed[1].title # col_subs[1].constructed[2].title
    /\ col_subs[1].returned = <<col_subs[1].constructed[1]>>
    /\ col_subs[2].failed
    /\ col_result = <<col_subs[1].constructed[1]>>

\* the strictly increasing maps from the positions of sub to those of s
Embeddings(sub, s) ==
    {f \in [DOMAIN sub -> DOMAIN s] :
        \A k, l \in DOMAIN sub : k < l => f[k] < f[l]}

\* sub is s with some of its positions left out
IsSubsequence(sub, s) ==
    /\ Len(sub) <= Len(s)
    /\ \E f \in Embeddings(sub, s) : \A k \in DOMAIN sub : sub[k] = s[f[k]]

\* C28: the dedup output is a subsequence of the fetched list; every
\* (url, title) pair of the fetched list is the pair of exactly one item of
\* the output; an item of the fetched list that is not in the output has
\* an earlier item with its url and its title
C28_OnlyTrueDuplicatesRemoved ==
    DedupDone =>
        /\ IsSubsequence(deduped, all_items)
        /\ \A i \in DOMAIN all_items :
            Cardinality({k \in DOMAIN deduped :
                            SamePair(deduped[k], all_items[i])}) = 1
        /\ \A i \in DOMAIN all_items :
            \/ Occurs(all_items[i], deduped)
            \/ \E j \in 1..(i - 1) : SamePair(all_items[j], all_items[i])

\* the second of three fetched notices shares the url of the first under
\* another title and was kept; the third shares url and title with the
\* first and was removed
C28_Witness ==
    /\ pc = "filter"
    /\ Len(all_items) = 3
    /\ Get(all_items[1], "url", "") = Get(all_items[2], "url", "")
    /\ ~SamePair(all_items[1], all_items[2])
    /\ SamePair(all_items[1], all_items[3])
    /\ deduped = <<all_items[1], all_items[2]>>

\* the match decision of filter.apply for one item under the loaded
\* configuration
MatchDecision(item) ==
    _matches(item, zip_pattern(config), neighborhood_pattern(config),
             corridor_pattern(config))

\* the number of positions of s that hold item
CountIn(item, s) ==
    Cardinality({i \in DOMAIN s : s[i] = item})

\* C29: the list filter.apply returns is a subsequence of the list it was
\* given; an item whose match decision, taken on the item and the
\* configuration alone, is true stands in it as often as in the input, and
\* an item whose decision is false does not stand in it
C29_FilterKeepsExactlyMatches ==
    (FilterDone /\ ~args.no_filter) =>
        /\ IsSubsequence(filtered, deduped)
        /\ \A i \in DOMAIN deduped :
            CountIn(deduped[i], filtered) =
                IF MatchDecision(deduped[i])
                THEN CountIn(deduped[i], deduped)
                ELSE 0

\* of three notices given to filter.apply the second was dropped and the
\* other two were passed on in their order
C29_Witness ==
    /\ pc = "flag"
    /\ ~args.no_filter
    /\ Len(deduped) = 3
    /\ ~MatchDecision(deduped[2])
    /\ filtered = <<deduped[1], deduped[3]>>

\* C30: the ordered list of generate.build holds every item as often as
\* the list given to build holds it, and no other item; the total of the
\* statistics is the number of items given to build
C30_OrderedIsPermutation ==
    GenerateDone =>
        /\ Len(ordered_items) = Len(flagged_items)
        /\ \A i \in DOMAIN flagged_items :
            CountIn(flagged_items[i], ordered_items)
                = CountIn(flagged_items[i], flagged_items)
        /\ \A i \in DOMAIN ordered_items :
            Occurs(ordered_items[i], flagged_items)
        /\ stats.total = Len(flagged_items)

\* build was given four notices, flagged and unflagged ones mixed, and
\* returned them in another order
C30_Witness ==
    /\ GenerateDone
    /\ Len(flagged_items) = 4
    /\ ~flagged_items[1].flagged
    /\ flagged_items[2].flagged
    /\ ~flagged_items[3].flagged
    /\ flagged_items[4].flagged
    /\ ordered_items # flagged_items
    /\ ordered_items[1].flagged
    /\ ~ordered_items[4].flagged
    /\ stats.total = 4
====
